---- MODULE Spec2Model ----
(***************************************************************************)
(* Model of the chat-history persistence layer and of the reliability      *)
(* primitives (withRetry, withTimeout, CircuitBreaker) of the               *)
(* agentic-web-starter-kit.                                                 *)
(*                                                                          *)
(* Each component is a specification of its own over its own variables;     *)
(* the variables of the other components stay at their initial value.       *)
(***************************************************************************)
EXTENDS Integers, Sequences, FiniteSets, TLC

\* ------------------------------------------------------------------ bounds
MaxRetriesArg == 4   \* options.maxRetries is drawn from 0..MaxRetriesArg (or left out)
MaxTimeoutMs == 2    \* the timeoutMs argument is drawn from 0..MaxTimeoutMs
MaxElapsed == 3      \* time after the withTimeout call runs over 0..MaxElapsed
MaxConversations == 3 \* ids uuidv4() hands out to conversations, earlier sessions included
MaxMessages == 3     \* messages saveMessage may put into one conversation
MaxClock == 1        \* new Date() runs over 0..MaxClock
MaxCalls == 2         \* local adapter calls in one run
MaxRemoteCalls == 2   \* remote adapter calls in one run
NumCallers == 2      \* execute calls that can be in flight at once
MaxTime == 3         \* Date.now() runs over 0..MaxTime
MaxThreshold == 2    \* constructor argument threshold is drawn from 1..MaxThreshold
MaxTimeout == 1      \* constructor argument timeout is drawn from 0..MaxTimeout
MaxRenders == 3      \* renders of the component that calls useChatHistory
MaxTasks == 2        \* tasks the create-task tool makes in one run
MaxToolCalls == 2    \* executions of the task tools in one run
MaxSwitches == 2     \* thread switches in one run
MaxHookCalls == 2    \* calls of the hook's actions in one run

VARIABLES
  \* ---- CircuitBreaker (lib/utils/retry.ts)
  threshold,         \* private threshold
  timeout,           \* private timeout
  state,             \* 'closed' | 'open' | 'half-open'
  failures,          \* private failures
  lastFailureTime,   \* private lastFailureTime
  now,               \* Date.now()
  callPc,            \* per caller: "idle", or "running" while its fn() is awaited
  callKind,          \* per caller, how its latest execute() treated fn:
                     \*   "none" (fn not invoked), "call" or "probe" (invoked)
  callResult,        \* per caller, how its latest execute() settled
  recent             \* outcomes recorded by onSuccess/onFailure since construction
                     \* or reset(), most recent last (at most MaxThreshold kept)

cbVars == <<threshold, timeout, state, failures, lastFailureTime, now,
            callPc, callKind, callResult, recent>>

VARIABLES
  \* ---- withRetry (lib/utils/retry.ts)
  options,           \* the RetryOptions argument; Absent marks a field left out
  rtPc,              \* "start" | "awaitFn" | "sleep" | "done"
  attempt,           \* the loop variable
  lastError,         \* let lastError: Error | undefined
  rtResult,          \* how withRetry settled, once rtPc = "done"
  invocations,       \* number of calls of fn() so far
  waits,             \* the delays passed to sleep(), in order
  fnLast,            \* how the latest fn() call settled
  retryableSeen,     \* rejections of fn() that opts.shouldRetry accepted
  rejectedSeen       \* rejections of fn() that opts.shouldRetry refused

rtVars == <<options, rtPc, attempt, lastError, rtResult, invocations, waits,
            fnLast, retryableSeen, rejectedSeen>>

VARIABLES
  \* ---- withTimeout (lib/utils/retry.ts)
  toPc,              \* "before" the call of withTimeout, or "racing"
  promise,           \* the promise argument: pending, or how it settled
  timeoutMs,         \* the timeoutMs argument
  errorMessage,      \* the errorMessage argument, Absent when left out
  timer,             \* the setTimeout: "unset" | "armed" | "fired"
  raced,             \* the promise withTimeout returns: pending, or how it settled
  elapsed,           \* time since withTimeout was called
  firstSettled       \* which of the two settled first: "none" | "promise" | "timer"

toVars == <<toPc, promise, timeoutMs, errorMessage, timer, raced, elapsed, firstSettled>>

VARIABLES
  \* ---- LocalStorageChatAdapter (lib/storage/localStorage.ts)
  hasWindow,         \* typeof window !== 'undefined'
  stored,            \* localStorage.getItem(storageKey): Absent, or the JSON text
  clock,             \* new Date()
  uuids,             \* number of ids uuidv4() has handed out
  calls,             \* number of adapter calls made so far
  lsLast             \* the latest adapter call and how it ended

lsVars == <<hasWindow, stored, clock, uuids, calls, lsLast>>

VARIABLES
  \* ---- callers of saveMessage that do not wait for each other
  awPc,              \* per caller: "ready", "awaiting" the promise its call
                     \* returned, or "resumed"
  awCall             \* per caller: the call it made and how it settled

awVars == <<awPc, awCall>>

VARIABLES
  \* ---- SupabaseChatAdapter (lib/storage/supabase.ts) and its backing store
  sbUserId,          \* this.userId: Absent, or the identity the adapter is bound to
  sbConversations,   \* the rows of the conversations table
  sbMessages,        \* the rows of the messages table
  sbClock,           \* new Date()
  sbUuids,           \* number of ids uuidv4() has handed out
  sbCalls,           \* number of adapter calls made so far
  sbPc,              \* Absent, or the conversation whose updated_at a saveMessage
                     \* call has yet to update
  sbLast             \* the latest adapter call and how it ended

sbVars == <<sbUserId, sbConversations, sbMessages, sbClock, sbUuids, sbCalls, sbPc,
            sbLast>>

VARIABLES
  \* ---- createChatStorage and the hook that holds its result
  \*      (lib/storage/interface.ts, lib/hooks/useChatHistory.ts)
  supabaseUrl,       \* process.env.NEXT_PUBLIC_SUPABASE_URL
  supabaseKey,       \* process.env.NEXT_PUBLIC_SUPABASE_ANON_KEY
  clientLoads,       \* whether require('@supabase/supabase-js') and createClient return
  hookUserId,        \* the userId argument of useChatHistory
  storage,           \* the hook's storage state: Absent before the first render
  constructed,       \* adapters constructed since the page loaded
  renders,           \* renders of the component so far
  served             \* the adapter instances the hook's operations have called

fcVars == <<supabaseUrl, supabaseKey, clientLoads, hookUserId, storage, constructed,
            renders, served>>

VARIABLES
  \* ---- withRetry(() => withTimeout(operation(), timeoutMs)) (lib/utils/retry.ts)
  coPc,              \* "start", "racing" (fn awaited), "sleep", "done"
  coAttempt,         \* the loop variable attempt
  coOperations,      \* the promise of each operation() started so far, in order
  coTimer,           \* the latest withTimeout's timer: "unset", "armed", "fired"
  coRaced,           \* the promise the latest withTimeout returned
  coElapsed,         \* time since the latest timer was armed
  coTimeoutMs,       \* the timeoutMs argument
  coLastError,       \* lastError
  coResult           \* how the withRetry call settled

coVars == <<coPc, coAttempt, coOperations, coTimer, coRaced, coElapsed, coTimeoutMs,
            coLastError, coResult>>

VARIABLES
  \* ---- HomePage: the thread-scoped task board (app/page.tsx)
  currentThreadId,   \* useThreadController().currentThreadId, the store's value
  tasks,             \* the tasks state as of the last render
  isLoaded,          \* the isLoaded state as of the last render
  pendingUpdates,    \* setTasks / setIsLoaded calls React has queued for the next render
  lastRender,        \* what the last render closed over: Absent before the mount
  effectPending,     \* the last render's thread-switching effect has not run yet
  threadStates,      \* threadStatesRef.current
  previousThreadId,  \* previousThreadIdRef.current
  savedThreadStates, \* localStorage item 'agentic-web-thread-states'
  taskIds,           \* task ids made so far
  toolCalls,         \* tool executions so far
  switches,          \* thread switches so far
  createdIn,         \* per task id, the thread that was current when it was created
  expected           \* per thread, the tasks after the tool executions made while
                     \* that thread was current

tbVars == <<currentThreadId, tasks, isLoaded, pendingUpdates, lastRender, effectPending,
            threadStates, previousThreadId, savedThreadStates, taskIds, toolCalls,
            switches, createdIn, expected>>

VARIABLES
  \* ---- useChatHistory (lib/hooks/useChatHistory.ts) over a ChatStorageAdapter
  hkConversations,       \* the conversations state
  hkCurrentConversation, \* the currentConversation state: Absent is null
  hkIsLoading,           \* the isLoading state
  hkError,               \* the error state: Absent is null
  hkStore,               \* the conversations the storage adapter holds
  hkCalls,               \* the calls of the hook's actions, in the order they were made
  hkUuids                \* ids handed out so far

hkVars == <<hkConversations, hkCurrentConversation, hkIsLoading, hkError, hkStore, hkCalls,
            hkUuids>>

vars == <<cbVars, rtVars, toVars, lsVars, awVars, sbVars, fcVars, coVars, tbVars, hkVars>>

\* ============================================================ CircuitBreaker

Callers == 1..NumCallers

CircuitOpenMessage == "Circuit breaker is open. Service temporarily unavailable."
FnErrors == {"fn error A", "fn error B"}
FnValues == {"value"}

\* Date.now() - this.lastFailureTime > this.timeout
CooldownElapsedLax(t, last, to) == t - last >= to
CooldownElapsed(t, last, to) == t - last > to

\* onSuccess(): failures = 0; state = 'closed'
OnSuccessNoReset(b) == [b EXCEPT !.state = "closed"]
OnSuccess(b) == [b EXCEPT !.failures = 0, !.state = "closed"]

\* onFailure(): failures++; lastFailureTime = Date.now(); open at the threshold
OnFailureStaleTime(b, t, th) ==
  [b EXCEPT !.failures = b.failures + 1,
            !.state = IF b.failures + 1 >= th THEN "open" ELSE b.state]
OnFailure(b, t, th) ==
  [b EXCEPT !.failures = b.failures + 1,
            !.lastFailureTime = t,
            !.state = IF b.failures + 1 >= th THEN "open" ELSE b.state]

Breaker == [state |-> state, failures |-> failures, lastFailureTime |-> lastFailureTime]

SetBreaker(b) ==
  /\ state' = b.state
  /\ failures' = b.failures
  /\ lastFailureTime' = b.lastFailureTime

\* the outcomes kept in `recent`
Remember(h, o) ==
  LET s == Append(h, o)
  IN IF Len(s) > MaxThreshold THEN SubSeq(s, 2, Len(s)) ELSE s

RECURSIVE TrailingFailures(_)
TrailingFailures(h) ==
  IF h = <<>> \/ h[Len(h)] # "failure" THEN 0
  ELSE 1 + TrailingFailures(SubSeq(h, 1, Len(h) - 1))

CBInit ==
  /\ threshold \in 1..MaxThreshold
  /\ timeout \in 0..MaxTimeout
  /\ state = "closed"
  /\ failures = 0
  /\ lastFailureTime = 0
  /\ now = 0
  /\ callPc = [c \in Callers |-> "idle"]
  /\ callKind = [c \in Callers |-> "none"]
  /\ callResult = [c \in Callers |-> "none"]
  /\ recent = <<>>

\* the breaker as constructed with its defaults, for the other specifications
DefaultThreshold == 5
DefaultTimeout == 60000
CBIdle ==
  /\ threshold = DefaultThreshold
  /\ timeout = DefaultTimeout
  /\ state = "closed"
  /\ failures = 0
  /\ lastFailureTime = 0
  /\ now = 0
  /\ callPc = [c \in Callers |-> "idle"]
  /\ callKind = [c \in Callers |-> "none"]
  /\ callResult = [c \in Callers |-> "none"]
  /\ recent = <<>>

\* the clock advances between events
Tick ==
  /\ now < MaxTime
  /\ now' = now + 1
  /\ UNCHANGED <<threshold, timeout, state, failures, lastFailureTime,
                 callPc, callKind, callResult, recent>>
  /\ UNCHANGED <<rtVars, toVars, lsVars, awVars, sbVars, fcVars, coVars, tbVars, hkVars>>

\* execute(fn) up to its await: the open-state gate, then the call of fn()
Execute(c) ==
  /\ callPc[c] = "idle"
  /\ IF state = "open" /\ ~CooldownElapsed(now, lastFailureTime, timeout)
       THEN /\ callResult' = [callResult EXCEPT ![c] = CircuitOpenMessage]
            /\ callKind' = [callKind EXCEPT ![c] = "none"]
            /\ UNCHANGED <<state, callPc>>
       ELSE /\ state' = IF state = "open" THEN "half-open" ELSE state
            /\ callKind' = [callKind EXCEPT ![c] = IF state = "open" THEN "probe" ELSE "call"]
            /\ callPc' = [callPc EXCEPT ![c] = "running"]
            /\ callResult' = [callResult EXCEPT ![c] = "pending"]
  /\ UNCHANGED <<threshold, timeout, failures, lastFailureTime, now, recent>>
  /\ UNCHANGED <<rtVars, toVars, lsVars, awVars, sbVars, fcVars, coVars, tbVars, hkVars>>

\* fn() fulfilled: onSuccess(); return result
FnSucceed(c, v) ==
  /\ callPc[c] = "running"
  /\ SetBreaker(OnSuccess(Breaker))
  /\ callPc' = [callPc EXCEPT ![c] = "idle"]
  /\ callResult' = [callResult EXCEPT ![c] = v]
  /\ recent' = Remember(recent, "success")
  /\ UNCHANGED <<threshold, timeout, now, callKind>>
  /\ UNCHANGED <<rtVars, toVars, lsVars, awVars, sbVars, fcVars, coVars, tbVars, hkVars>>

\* fn() rejected: onFailure(); throw error
FnFail(c, e) ==
  /\ callPc[c] = "running"
  /\ SetBreaker(OnFailure(Breaker, now, threshold))
  /\ callPc' = [callPc EXCEPT ![c] = "idle"]
  /\ callResult' = [callResult EXCEPT ![c] = e]
  /\ recent' = Remember(recent, "failure")
  /\ UNCHANGED <<threshold, timeout, now, callKind>>
  /\ UNCHANGED <<rtVars, toVars, lsVars, awVars, sbVars, fcVars, coVars, tbVars, hkVars>>

\* reset()
Reset ==
  /\ state' = "closed"
  /\ failures' = 0
  /\ lastFailureTime' = 0
  /\ recent' = <<>>
  /\ UNCHANGED <<threshold, timeout, now, callPc, callKind, callResult>>
  /\ UNCHANGED <<rtVars, toVars, lsVars, awVars, sbVars, fcVars, coVars, tbVars, hkVars>>

ExecuteAny == \E c \in Callers : Execute(c)
FnSucceedAny == \E c \in Callers : \E v \in FnValues : FnSucceed(c, v)
FnFailAny == \E c \in Callers : \E e \in FnErrors : FnFail(c, e)

CBNext ==
  \/ Tick
  \/ ExecuteAny
  \/ FnSucceedAny
  \/ FnFailAny
  \/ Reset


\* ================================================================= withRetry

\* an optional property: <<>> when the object does not have it, <<v>> when it has
Absent == <<>>
Some(v) == <<v>>

\* Strings are sequences of characters, so that toLowerCase() and includes()
\* are computed rather than assumed.
UpperCase == <<"A", "B", "C", "D", "E", "F", "G", "H", "I", "J", "K", "L", "M", "N", "O", "P", "Q", "R", "S", "T", "U", "V", "W", "X", "Y", "Z">>
LowerCase == <<"a", "b", "c", "d", "e", "f", "g", "h", "i", "j", "k", "l", "m", "n", "o", "p", "q", "r", "s", "t", "u", "v", "w", "x", "y", "z">>

\* String.prototype.toLowerCase
ToLowerCase(str) ==
  [i \in 1..Len(str) |->
     IF \E k \in 1..Len(UpperCase) : UpperCase[k] = str[i]
       THEN LowerCase[CHOOSE k \in 1..Len(UpperCase) : UpperCase[k] = str[i]]
       ELSE str[i]]

\* String.prototype.includes
Includes(str, sub) ==
  \E i \in 0..(Len(str) - Len(sub)) : SubSeq(str, i + 1, i + Len(sub)) = sub

NetworkWord == <<"n", "e", "t", "w", "o", "r", "k">>
FetchWord == <<"f", "e", "t", "c", "h">>
EconnrefusedWord == <<"e", "c", "o", "n", "n", "r", "e", "f", "u", "s", "e", "d">>
EnotfoundWord == <<"e", "n", "o", "t", "f", "o", "u", "n", "d">>
TimeoutWord == <<"t", "i", "m", "e", "o", "u", "t">>
TimedOutWord == <<"t", "i", "m", "e", "d", " ", "o", "u", "t">>
RateLimitWord == <<"r", "a", "t", "e", " ", "l", "i", "m", "i", "t">>
Code429 == <<"4", "2", "9">>
QuotaWord == <<"q", "u", "o", "t", "a">>
Code500 == <<"5", "0", "0">>
Code502 == <<"5", "0", "2">>
Code503 == <<"5", "0", "3">>
Code504 == <<"5", "0", "4">>

\* a thrown value: an Error with a message, or some value that is no Error
ErrorOf(msg) == [type |-> "Error", message |-> msg]
NonError(val) == [type |-> "string", message |-> val]
Undefined == [type |-> "undefined", message |-> <<>>]
IsError(x) == x.type = "Error"

RateLimitError == ErrorOf(<<"R", "a", "t", "e", " ", "l", "i", "m", "i", "t", " ", "e", "x", "c", "e", "e", "d", "e", "d">>)
TimedOutError == ErrorOf(<<"O", "p", "e", "r", "a", "t", "i", "o", "n", " ", "t", "i", "m", "e", "d", " ", "o", "u", "t">>)
ServerError == ErrorOf(<<"H", "T", "T", "P", " ", "5", "0", "3">>)
InvalidInputError == ErrorOf(<<"I", "n", "v", "a", "l", "i", "d", " ", "i", "n", "p", "u", "t">>)
ThrownString == NonError(<<"n", "e", "t", "w", "o", "r", "k", " ", "d", "o", "w", "n">>)
UnknownError == ErrorOf(<<"U", "n", "k", "n", "o", "w", "n", " ", "e", "r", "r", "o", "r">>)

\* what fn() may reject with, and what it may resolve to
Thrown == {RateLimitError, TimedOutError, ServerError, InvalidInputError, ThrownString}
Values == {"value A", "value B"}

\* isRetryableError(error)
IsRetryableError(error) ==
  /\ IsError(error)
  /\ LET message == ToLowerCase(error.message)
     IN \/ Includes(message, NetworkWord) \/ Includes(message, FetchWord)
        \/ Includes(message, EconnrefusedWord) \/ Includes(message, EnotfoundWord)
        \/ Includes(message, TimeoutWord) \/ Includes(message, TimedOutWord)
        \/ Includes(message, RateLimitWord) \/ Includes(message, Code429)
        \/ Includes(message, QuotaWord)
        \/ Includes(message, Code500) \/ Includes(message, Code502)
        \/ Includes(message, Code503) \/ Includes(message, Code504)

\* const defaultOptions
DefaultMaxRetries == 3
DefaultBaseDelay == 1000
DefaultMaxDelay == 10000
DefaultBackoffMultiplier == 2
defaultOptions ==
  [maxRetries |-> DefaultMaxRetries, baseDelay |-> DefaultBaseDelay,
   maxDelay |-> DefaultMaxDelay, backoffMultiplier |-> DefaultBackoffMultiplier,
   shouldRetry |-> "isRetryableError"]

\* the RetryOptions a caller may pass
RetryOptions ==
  [maxRetries : {Absent} \cup {Some(n) : n \in 0..MaxRetriesArg},
   baseDelay : {Absent, Some(400)},
   maxDelay : {Absent, Some(3000)},
   backoffMultiplier : {Absent, Some(1), Some(3)},
   shouldRetry : {Absent, Some("always"), Some("never")}]

\* const opts = { ...defaultOptions, ...options }
Merged(defaults, given) ==
  [k \in DOMAIN defaults |-> IF given[k] = Absent THEN defaults[k] ELSE given[k][1]]
opts == Merged(defaultOptions, options)

\* opts.shouldRetry(error)
ShouldRetry(error) ==
  CASE opts.shouldRetry = "isRetryableError" -> IsRetryableError(error)
    [] opts.shouldRetry = "always" -> TRUE
    [] opts.shouldRetry = "never" -> FALSE

\* Math.pow and Math.min on the integers used here
RECURSIVE Pow(_, _)
Pow(b, n) == IF n <= 0 THEN 1 ELSE b * Pow(b, n - 1)
Min(a, b) == IF a <= b THEN a ELSE b

\* Math.min(opts.baseDelay * Math.pow(opts.backoffMultiplier, attempt), opts.maxDelay)
DelayUncapped(o, n) == o.baseDelay * Pow(o.backoffMultiplier, n)
Delay(o, n) == Min(o.baseDelay * Pow(o.backoffMultiplier, n), o.maxDelay)

\* lastError = error instanceof Error ? error : new Error('Unknown error')
AsError(error) == IF IsError(error) THEN error ELSE UnknownError

\* new LLMError(`Failed after ${opts.maxRetries} retries`, { originalError: lastError })
Exhausted(o, last) ==
  [kind |-> "LLMError", retries |-> o.maxRetries, details |-> [originalError |-> last]]

\* the loop test: attempt < opts.maxRetries
AttemptsRemainInclusive(o, n) == n <= o.maxRetries
AttemptsRemain(o, n) == n < o.maxRetries

\* throw error: what the catch block rethrows when shouldRetry refuses
RethrownNormalised(error, last) == last
Rethrown(error, last) == error

\* attempt < opts.maxRetries - 1: a wait follows this failed attempt
WaitFollowsAlways(o, n) == TRUE
WaitFollows(o, n) == n < o.maxRetries - 1

RetryInit ==
  /\ options \in RetryOptions
  /\ rtPc = "start"
  /\ attempt = 0
  /\ lastError = Undefined
  /\ rtResult = [kind |-> "pending"]
  /\ invocations = 0
  /\ waits = <<>>
  /\ fnLast = [kind |-> "none"]
  /\ retryableSeen = 0
  /\ rejectedSeen = 0

\* withRetry not called, for the other specifications
RetryIdle ==
  /\ options = [k \in DOMAIN defaultOptions |-> Absent]
  /\ rtPc = "start"
  /\ attempt = 0
  /\ lastError = Undefined
  /\ rtResult = [kind |-> "pending"]
  /\ invocations = 0
  /\ waits = <<>>
  /\ fnLast = [kind |-> "none"]
  /\ retryableSeen = 0
  /\ rejectedSeen = 0

\* the loop test with attempt = n, then fn() or the throw after the loop
LoopTest(n, last) ==
  IF AttemptsRemain(opts, n)
    THEN /\ rtPc' = "awaitFn"
         /\ invocations' = invocations + 1
         /\ UNCHANGED rtResult
    ELSE /\ rtPc' = "done"
         /\ rtResult' = Exhausted(opts, last)
         /\ UNCHANGED invocations

\* withRetry is called: attempt = 0, the first loop test
RetryStart ==
  /\ rtPc = "start"
  /\ LoopTest(attempt, lastError)
  /\ UNCHANGED <<options, attempt, lastError, waits, fnLast, retryableSeen, rejectedSeen>>
  /\ UNCHANGED <<cbVars, toVars, lsVars, awVars, sbVars, fcVars, coVars, tbVars, hkVars>>

\* fn() fulfilled: return await fn()
RetryFnResolve(v) ==
  /\ rtPc = "awaitFn"
  /\ fnLast' = [kind |-> "value", value |-> v]
  /\ rtResult' = [kind |-> "value", value |-> v]
  /\ rtPc' = "done"
  /\ UNCHANGED <<options, attempt, lastError, invocations, waits, retryableSeen, rejectedSeen>>
  /\ UNCHANGED <<cbVars, toVars, lsVars, awVars, sbVars, fcVars, coVars, tbVars, hkVars>>

\* fn() rejected: the catch block, up to the sleep or to the throw that ends withRetry
RetryFnReject(error) ==
  /\ rtPc = "awaitFn"
  /\ fnLast' = [kind |-> "thrown", error |-> error]
  /\ lastError' = AsError(error)
  /\ IF ~ShouldRetry(error)
       THEN /\ rtResult' = [kind |-> "thrown", error |-> Rethrown(error, AsError(error))]
            /\ rtPc' = "done"
            /\ rejectedSeen' = rejectedSeen + 1
            /\ UNCHANGED <<attempt, waits, retryableSeen, invocations>>
       ELSE /\ retryableSeen' = retryableSeen + 1
            /\ UNCHANGED rejectedSeen
            /\ IF WaitFollows(opts, attempt)
                 THEN /\ waits' = Append(waits, Delay(opts, attempt))
                      /\ rtPc' = "sleep"
                      /\ UNCHANGED <<attempt, rtResult, invocations>>
                 ELSE \* no wait: attempt++ and the loop test at once
                      /\ attempt' = attempt + 1
                      /\ LoopTest(attempt + 1, AsError(error))
                      /\ UNCHANGED waits
  /\ UNCHANGED options
  /\ UNCHANGED <<cbVars, toVars, lsVars, awVars, sbVars, fcVars, coVars, tbVars, hkVars>>

\* sleep(delay) is over: attempt++, the loop test, then the next fn()
RetrySleepDone ==
  /\ rtPc = "sleep"
  /\ attempt' = attempt + 1
  /\ LoopTest(attempt + 1, lastError)
  /\ UNCHANGED <<options, lastError, waits, fnLast, retryableSeen, rejectedSeen>>
  /\ UNCHANGED <<cbVars, toVars, lsVars, awVars, sbVars, fcVars, coVars, tbVars, hkVars>>

RetryFnResolveAny == \E v \in Values : RetryFnResolve(v)
RetryFnRejectAny == \E error \in Thrown : RetryFnReject(error)

RetryNext ==
  \/ RetryStart
  \/ RetryFnResolveAny
  \/ RetryFnRejectAny
  \/ RetrySleepDone

\* =============================================================== withTimeout

Pending == [kind |-> "pending"]
Fulfilled(v) == [kind |-> "value", value |-> v]
Rejected(error) == [kind |-> "thrown", error |-> error]

\* how the operation behind the promise argument may settle
OperationOutcomes ==
  {Fulfilled(v) : v \in Values} \cup {Rejected(InvalidInputError), Rejected(TimedOutError)}

\* errorMessage = 'Operation timed out'
DefaultErrorMessage == <<"O", "p", "e", "r", "a", "t", "i", "o", "n", " ", "t", "i", "m", "e", "d", " ", "o", "u", "t">>
CustomErrorMessage == <<"L", "L", "M", " ", "c", "a", "l", "l", " ", "t", "o", "o", " ", "s", "l", "o", "w">>
ErrorMessageOf(given) == IF given = Absent THEN DefaultErrorMessage ELSE given[1]

\* reject(new Error(errorMessage))
TimeoutRejection(given) == Rejected(ErrorOf(ErrorMessageOf(given)))

\* Promise.race: the returned promise takes the first settlement and keeps it
RaceLastWins(current, settled) == settled
Race(current, settled) == IF current.kind = "pending" THEN settled ELSE current

\* setTimeout(..., timeoutMs): the callback runs no earlier than timeoutMs
TimerDue(t, ms) == t >= ms

TimeoutInit ==
  /\ toPc = "before"
  /\ promise \in {Pending} \cup OperationOutcomes
  /\ timeoutMs \in 0..MaxTimeoutMs
  /\ errorMessage \in {Absent, Some(CustomErrorMessage)}
  /\ timer = "unset"
  /\ raced = Pending
  /\ elapsed = 0
  /\ firstSettled = "none"

\* withTimeout not called, for the other specifications
TimeoutIdle ==
  /\ toPc = "before"
  /\ promise = Pending
  /\ timeoutMs = 0
  /\ errorMessage = Absent
  /\ timer = "unset"
  /\ raced = Pending
  /\ elapsed = 0
  /\ firstSettled = "none"

\* withTimeout(promise, timeoutMs, errorMessage): arm the timer and race; a
\* promise that has settled already is taken before any timer callback can run
WithTimeout ==
  /\ toPc = "before"
  /\ toPc' = "racing"
  /\ timer' = "armed"
  /\ IF promise.kind = "pending"
       THEN UNCHANGED <<raced, firstSettled>>
       ELSE /\ raced' = Race(raced, promise)
            /\ firstSettled' = "promise"
  /\ UNCHANGED <<promise, timeoutMs, errorMessage, elapsed>>
  /\ UNCHANGED <<cbVars, rtVars, lsVars, awVars, sbVars, fcVars, coVars, tbVars, hkVars>>

\* the operation behind the promise settles
OperationSettles(outcome) ==
  /\ toPc = "racing"
  /\ promise.kind = "pending"
  /\ promise' = outcome
  /\ raced' = Race(raced, outcome)
  /\ firstSettled' = IF firstSettled = "none" THEN "promise" ELSE firstSettled
  /\ UNCHANGED <<toPc, timeoutMs, errorMessage, timer, elapsed>>
  /\ UNCHANGED <<cbVars, rtVars, lsVars, awVars, sbVars, fcVars, coVars, tbVars, hkVars>>

\* the setTimeout callback runs
TimerFires ==
  /\ toPc = "racing"
  /\ timer = "armed"
  /\ TimerDue(elapsed, timeoutMs)
  /\ timer' = "fired"
  /\ raced' = Race(raced, TimeoutRejection(errorMessage))
  /\ firstSettled' = IF firstSettled = "none" THEN "timer" ELSE firstSettled
  /\ UNCHANGED <<toPc, promise, timeoutMs, errorMessage, elapsed>>
  /\ UNCHANGED <<cbVars, rtVars, lsVars, awVars, sbVars, fcVars, coVars, tbVars, hkVars>>

\* time passes
TimeoutTick ==
  /\ toPc = "racing"
  /\ elapsed < MaxElapsed
  /\ elapsed' = elapsed + 1
  /\ UNCHANGED <<toPc, promise, timeoutMs, errorMessage, timer, raced, firstSettled>>
  /\ UNCHANGED <<cbVars, rtVars, lsVars, awVars, sbVars, fcVars, coVars, tbVars, hkVars>>

OperationSettlesAny == \E outcome \in OperationOutcomes : OperationSettles(outcome)

TimeoutNext ==
  \/ WithTimeout
  \/ OperationSettlesAny
  \/ TimerFires
  \/ TimeoutTick

\* ======================================== withRetry around withTimeout

\* the loop test with attempt = n, then fn(): operation() is started and
\* withTimeout arms a timer and races the two; or the throw after the loop
ComposedLoopTest(n, last) ==
  IF AttemptsRemain(opts, n)
    THEN /\ coPc' = "racing"
         /\ coOperations' = Append(coOperations, Pending)
         /\ coTimer' = "armed"
         /\ coRaced' = Pending
         /\ coElapsed' = 0
         /\ UNCHANGED coResult
    ELSE /\ coPc' = "done"
         /\ coResult' = Exhausted(opts, last)
         /\ UNCHANGED <<coOperations, coTimer, coRaced, coElapsed>>

ComposedInit ==
  /\ coPc = "start"
  /\ coAttempt = 0
  /\ coOperations = <<>>
  /\ coTimer = "unset"
  /\ coRaced = Pending
  /\ coElapsed = 0
  /\ coTimeoutMs \in 0..MaxTimeoutMs
  /\ coLastError = Undefined
  /\ coResult = Pending

\* the composition is not used, for the other specifications
ComposedIdle ==
  /\ coPc = "start"
  /\ coAttempt = 0
  /\ coOperations = <<>>
  /\ coTimer = "unset"
  /\ coRaced = Pending
  /\ coElapsed = 0
  /\ coTimeoutMs = 0
  /\ coLastError = Undefined
  /\ coResult = Pending

\* withRetry is called with the default options
ComposedStart ==
  /\ coPc = "start"
  /\ ComposedLoopTest(coAttempt, coLastError)
  /\ UNCHANGED <<coAttempt, coTimeoutMs, coLastError>>
  /\ UNCHANGED <<cbVars, rtVars, toVars, lsVars, awVars, sbVars, fcVars, tbVars, hkVars>>

\* the i-th operation settles; nothing cancels an operation, so it may do so
\* at any time after it was started.  Only the latest race has it as a member.
ComposedOperationSettles(i, outcome) ==
  /\ i \in 1..Len(coOperations)
  /\ coOperations[i] = Pending
  /\ coOperations' = [coOperations EXCEPT ![i] = outcome]
  /\ coRaced' = IF i = Len(coOperations) THEN Race(coRaced, outcome) ELSE coRaced
  /\ UNCHANGED <<coPc, coAttempt, coTimer, coElapsed, coTimeoutMs, coLastError, coResult>>
  /\ UNCHANGED <<cbVars, rtVars, toVars, lsVars, awVars, sbVars, fcVars, tbVars, hkVars>>

\* the setTimeout callback of the latest withTimeout runs (the callbacks of
\* earlier ones reject promises whose race is over)
ComposedTimerFires ==
  /\ coTimer = "armed"
  /\ TimerDue(coElapsed, coTimeoutMs)
  /\ coTimer' = "fired"
  /\ coRaced' = Race(coRaced, TimeoutRejection(Absent))
  /\ UNCHANGED <<coPc, coAttempt, coOperations, coElapsed, coTimeoutMs, coLastError,
                 coResult>>
  /\ UNCHANGED <<cbVars, rtVars, toVars, lsVars, awVars, sbVars, fcVars, tbVars, hkVars>>

\* await fn() resumes in withRetry: return the value, or the catch block up
\* to the sleep or to the throw that ends withRetry
ComposedSettled ==
  /\ coPc = "racing"
  /\ coRaced.kind # "pending"
  /\ IF coRaced.kind = "value"
       THEN /\ coResult' = coRaced
            /\ coPc' = "done"
            /\ UNCHANGED <<coAttempt, coOperations, coTimer, coRaced, coElapsed,
                           coLastError>>
       ELSE /\ coLastError' = AsError(coRaced.error)
            /\ IF ~ShouldRetry(coRaced.error)
                 THEN /\ coResult' = Rejected(Rethrown(coRaced.error, AsError(coRaced.error)))
                      /\ coPc' = "done"
                      /\ UNCHANGED <<coAttempt, coOperations, coTimer, coRaced, coElapsed>>
                 ELSE IF WaitFollows(opts, coAttempt)
                   THEN /\ coPc' = "sleep"
                        /\ UNCHANGED <<coAttempt, coOperations, coTimer, coRaced,
                                       coElapsed, coResult>>
                   ELSE /\ coAttempt' = coAttempt + 1
                        /\ ComposedLoopTest(coAttempt + 1, AsError(coRaced.error))
  /\ UNCHANGED coTimeoutMs
  /\ UNCHANGED <<cbVars, rtVars, toVars, lsVars, awVars, sbVars, fcVars, tbVars, hkVars>>

\* sleep(delay) is over: attempt++, the loop test, then the next fn()
ComposedSleepDone ==
  /\ coPc = "sleep"
  /\ coAttempt' = coAttempt + 1
  /\ ComposedLoopTest(coAttempt + 1, coLastError)
  /\ UNCHANGED <<coTimeoutMs, coLastError>>
  /\ UNCHANGED <<cbVars, rtVars, toVars, lsVars, awVars, sbVars, fcVars, tbVars, hkVars>>

\* time passes
ComposedTick ==
  /\ coElapsed < MaxElapsed
  /\ coElapsed' = coElapsed + 1
  /\ UNCHANGED <<coPc, coAttempt, coOperations, coTimer, coRaced, coTimeoutMs,
                 coLastError, coResult>>
  /\ UNCHANGED <<cbVars, rtVars, toVars, lsVars, awVars, sbVars, fcVars, tbVars, hkVars>>

ComposedOperationSettlesAny ==
  \E i \in 1..Len(coOperations) : \E outcome \in OperationOutcomes :
    ComposedOperationSettles(i, outcome)

ComposedNext ==
  \/ ComposedStart
  \/ ComposedOperationSettlesAny
  \/ ComposedTimerFires
  \/ ComposedSettled
  \/ ComposedSleepDone
  \/ ComposedTick

\* =================================================== LocalStorageChatAdapter

\* ---- the data model (lib/storage/interface.ts)

\* a Date, and the ISO-8601 string JSON.stringify writes for it
DateOf(ms) == [ms |-> ms]
ToISOString(date) == [iso |-> date.ms]
ParseDate(str) == [ms |-> str.iso]

\* Message.metadata and Conversation.metadata, every property optional
MessageMetadata(tokens, error) == [tokens |-> tokens, error |-> error]
ConversationMetadata(totalTokens, messageCount, userId) ==
  [totalTokens |-> totalTokens, messageCount |-> messageCount, userId |-> userId]

Message(id, role, content, timestamp, metadata) ==
  [id |-> id, role |-> role, content |-> content, timestamp |-> timestamp,
   metadata |-> metadata]

\* x || 0 on an optional number
OrZero(opt) == IF opt = Absent THEN 0 ELSE opt[1]

\* message.metadata?.tokens || 0
TokensOf(message) ==
  IF message.metadata = Absent THEN 0 ELSE OrZero(message.metadata[1].tokens)

\* Object.assign(target, updates): every property that updates has is copied
Assign(target, updates) ==
  [k \in DOMAIN target |-> IF updates[k] = Absent THEN target[k] ELSE updates[k][1]]

\* Array.prototype.findIndex, 1-based, 0 when nothing matches
FindIndex(seq, Test(_)) ==
  IF \E i \in 1..Len(seq) : Test(seq[i])
    THEN CHOOSE i \in 1..Len(seq) : Test(seq[i]) /\ \A j \in 1..(i - 1) : ~Test(seq[j])
    ELSE 0

\* Array.prototype.splice(index, 1)
Splice(seq, index) == SubSeq(seq, 1, index - 1) \o SubSeq(seq, index + 1, Len(seq))

\* ---- StorageData: the conversations object, as its properties in insertion
\* order (the order of Object.values), each a key and the Conversation under it

EmptyData == <<>>

\* a lookup that falls back on the first conversation
KeyIndexOrFirst(data, key) ==
  LET i == FindIndex(data, LAMBDA entry : entry.key = key)
  IN IF i = 0 /\ data # <<>> THEN 1 ELSE i

\* data.conversations[key]: the position of the property, 0 when there is none
KeyIndex(data, key) == FindIndex(data, LAMBDA entry : entry.key = key)

\* JSON.stringify(data) and JSON.parse(text) with the dates converted back
StringifyMessage(message) ==
  [message EXCEPT !.timestamp = ToISOString(message.timestamp)]
StringifyConversation(conv) ==
  [conv EXCEPT !.createdAt = ToISOString(conv.createdAt),
               !.updatedAt = ToISOString(conv.updatedAt),
               !.messages = [i \in 1..Len(conv.messages) |->
                               StringifyMessage(conv.messages[i])]]
Stringify(data) ==
  [i \in 1..Len(data) |->
     [key |-> data[i].key, value |-> StringifyConversation(data[i].value)]]

ParseMessage(json) == [json EXCEPT !.timestamp = ParseDate(json.timestamp)]
ParseConversation(json) ==
  [json EXCEPT !.createdAt = ParseDate(json.createdAt),
               !.updatedAt = ParseDate(json.updatedAt),
               !.messages = [i \in 1..Len(json.messages) |->
                               ParseMessage(json.messages[i])]]
Parse(text) ==
  [i \in 1..Len(text) |->
     [key |-> text[i].key, value |-> ParseConversation(text[i].value)]]

\* the new Conversation of createConversation(title); createdAt and updatedAt
\* are two calls of new Date(), the second at the same time or later
NewConversation(id, title, t, later) ==
  [id |-> id,
   title |-> IF title = Absent THEN "New Conversation" ELSE title[1],
   messages |-> <<>>,
   createdAt |-> DateOf(t),
   updatedAt |-> DateOf(later),
   metadata |-> ConversationMetadata(Some(0), Some(0), Absent)]

\* the conversation after saveMessage has pushed the message
WithMessage(conv, message, t) ==
  [conv EXCEPT
     !.messages = Append(conv.messages, message),
     !.updatedAt = DateOf(t),
     !.metadata = [conv.metadata EXCEPT
                     !.messageCount = Some(Len(conv.messages) + 1),
                     !.totalTokens = Some(OrZero(conv.metadata.totalTokens)
                                          + TokensOf(message))]]

\* the document an earlier session left in the store: two conversations
\* created at time 0, the first given a user message and an assistant message
EarlierData ==
  LET user == Message("m1", "user", "Plan a 3-day trip to Kyoto", DateOf(0), Absent)
      assistant == Message("m2", "assistant", "Here is a plan", DateOf(0),
                           Some(MessageMetadata(Some(42), Absent)))
      first == NewConversation(<<"c", 1>>, Absent, 0, 0)
  IN <<[key |-> <<"c", 1>>,
        value |-> WithMessage(WithMessage(first, user, 0), assistant, 0)],
       [key |-> <<"c", 2>>,
        value |-> NewConversation(<<"c", 2>>, Absent, 0, 0)]>>

\* a read that misses what was written since the session began
GetAllEarlier == IF ~hasWindow THEN EmptyData ELSE EarlierData

\* a stored text that is not JSON, and JSON.parse throwing on it
Unparseable == <<[corrupt |-> TRUE]>>
JSONParseThrows(text) == Len(text) > 0 /\ "corrupt" \in DOMAIN text[1]

\* getAll()
GetAll ==
  IF ~hasWindow THEN EmptyData
  ELSE IF stored = Absent THEN EmptyData
  ELSE IF JSONParseThrows(stored[1]) THEN EmptyData
  ELSE Parse(stored[1])

\* ---- the read operations

\* getMessages(conversationId)
GetMessages(conversationId) ==
  LET data == GetAll
      i == KeyIndex(data, conversationId)
  IN IF i = 0 THEN <<>> ELSE data[i].value.messages

\* getConversation(conversationId): Absent stands for null
GetConversation(conversationId) ==
  LET data == GetAll
      i == KeyIndex(data, conversationId)
  IN IF i = 0 THEN Absent ELSE Some(data[i].value)

\* Array.prototype.sort with (a, b) => b.updatedAt.getTime() - a.updatedAt.getTime():
\* a stable sort, so conversations of equal updatedAt keep their order
InsertByUpdatedAt(sorted, conv) ==
  LET before == {k \in 1..Len(sorted) : sorted[k].updatedAt.ms >= conv.updatedAt.ms}
      n == Cardinality(before)
  IN SubSeq(sorted, 1, n) \o <<conv>> \o SubSeq(sorted, n + 1, Len(sorted))

RECURSIVE SortByUpdatedAt(_)
SortByUpdatedAt(convs) ==
  IF convs = <<>> THEN <<>>
  ELSE InsertByUpdatedAt(SortByUpdatedAt(SubSeq(convs, 1, Len(convs) - 1)),
                         convs[Len(convs)])

\* Object.values(data.conversations)
ObjectValues(data) == [i \in 1..Len(data) |-> data[i].value]

\* listConversations()
ListConversations == SortByUpdatedAt(ObjectValues(GetAll))

\* ---- the arguments callers pass

ConversationIds == {<<"c", n>> : n \in 1..MaxConversations}
MissingConversationId == <<"c", 0>>
MessageIds == {"m1", "m2"}

\* the messages a caller may save at time t
NewMessages(t) ==
  { Message("m1", "user", "Plan a 3-day trip to Kyoto", DateOf(t), Absent),
    Message("m2", "assistant", "Here is a plan", DateOf(t),
            Some(MessageMetadata(Some(42), Absent))) }

\* Partial<Message> and Partial<Conversation> objects
NoMessageUpdates ==
  [id |-> Absent, role |-> Absent, timestamp |-> Absent, content |-> Absent,
   metadata |-> Absent]
MessageUpdates ==
  { [NoMessageUpdates EXCEPT !.content = Some("edited")],
    [NoMessageUpdates EXCEPT
       !.metadata = Some(Some(MessageMetadata(Absent, Some("tool failed"))))],
    [NoMessageUpdates EXCEPT
       !.id = Some("m2"), !.role = Some("system"),
       !.timestamp = Some(DateOf(MaxClock))] }

NoConversationUpdates ==
  [id |-> Absent, messages |-> Absent, createdAt |-> Absent, updatedAt |-> Absent,
   title |-> Absent, metadata |-> Absent]
ConversationUpdates ==
  { [NoConversationUpdates EXCEPT !.title = Some("Trip Planning")],
    [NoConversationUpdates EXCEPT
       !.metadata = Some(ConversationMetadata(Absent, Absent, Some("user-1")))],
    [NoConversationUpdates EXCEPT
       !.id = Some(<<"c", 2>>), !.createdAt = Some(DateOf(MaxClock)),
       !.updatedAt = Some(DateOf(0))] }

Titles == {Absent, Some("Trip Planning")}

\* ---- the outcome of a call
Ok == "ok"
WriteFailed == "Failed to save to localStorage"
ConversationNotFound == "Conversation not found"
MessageNotFound == "Message not found"

Call(op, outcome) == [op |-> op, outcome |-> outcome]

\* one more adapter call is made
Called == calls < MaxCalls /\ calls' = calls + 1

\* saveAll(data), where setItem may throw; ends the call with its outcome
SaveAll(data, setItemThrows, call) ==
  IF ~hasWindow
    THEN stored' = stored /\ lsLast' = call
    ELSE IF setItemThrows
      THEN stored' = stored /\ lsLast' = [call EXCEPT !.outcome = WriteFailed]
      ELSE stored' = Some(Stringify(data)) /\ lsLast' = call

\* a call that throws before it writes
Throw(call) == stored' = stored /\ lsLast' = call

\* the adapter over an empty store, in a browser or not, or in a browser over
\* the document an earlier session left or over a text that is not JSON
LocalInit ==
  /\ hasWindow \in BOOLEAN
  /\ \/ stored = Absent /\ uuids = 0
     \/ hasWindow /\ stored = Some(Stringify(EarlierData)) /\ uuids = Len(EarlierData)
     \/ hasWindow /\ stored = Some(Unparseable) /\ uuids = 0
  /\ clock = 0
  /\ calls = 0
  /\ lsLast = Call("none", Ok)

\* the adapter not used, for the other specifications
LocalIdle ==
  /\ hasWindow = TRUE
  /\ stored = Absent
  /\ clock = 0
  /\ uuids = 0
  /\ calls = 0
  /\ lsLast = Call("none", Ok)

\* time passes before a further call
LocalTick ==
  /\ clock < MaxClock
  /\ calls < MaxCalls
  /\ clock' = clock + 1
  /\ UNCHANGED <<hasWindow, stored, uuids, calls, lsLast>>
  /\ UNCHANGED <<cbVars, rtVars, toVars, awVars, sbVars, fcVars, coVars, tbVars, hkVars>>

\* the times the clock may show at a second reading
Later == {t \in {clock, clock + 1} : t <= MaxClock}

\* createConversation(title)
CreateConversation(title, setItemThrows) ==
  /\ Called
  /\ uuids < MaxConversations
  /\ uuids' = uuids + 1
  /\ \E later \in Later :
       /\ clock' = later
       /\ LET data == GetAll
              id == <<"c", uuids + 1>>
              conversation == NewConversation(id, title, clock, later)
          IN SaveAll(Append(data, [key |-> id, value |-> conversation]),
                     setItemThrows, Call("createConversation", Ok))
  /\ UNCHANGED hasWindow
  /\ UNCHANGED <<cbVars, rtVars, toVars, sbVars, fcVars, coVars, tbVars, hkVars>>

\* saveMessage(conversationId, message)
SaveMessage(conversationId, message, setItemThrows) ==
  /\ Called
  /\ LET data == GetAll
         i == KeyIndex(data, conversationId)
         call == Call("saveMessage", Ok)
     IN IF i = 0
          THEN Throw([call EXCEPT !.outcome = ConversationNotFound])
          ELSE /\ Len(data[i].value.messages) < MaxMessages
               /\ SaveAll([data EXCEPT ![i].value = WithMessage(@, message, clock)],
                          setItemThrows, call)
  /\ UNCHANGED <<hasWindow, clock, uuids>>
  /\ UNCHANGED <<cbVars, rtVars, toVars, sbVars, fcVars, coVars, tbVars, hkVars>>

\* the last conversation holding a message with this id
HolderIndexLast(data, messageId) ==
  LET holders == {i \in 1..Len(data) :
                    \E k \in 1..Len(data[i].value.messages) :
                      data[i].value.messages[k].id = messageId}
  IN IF holders = {} THEN 0 ELSE CHOOSE i \in holders : \A j \in holders : j <= i

\* the first conversation, in Object.values order, holding a message with this id
HolderIndex(data, messageId) ==
  FindIndex(data, LAMBDA entry :
    FindIndex(entry.value.messages, LAMBDA m : m.id = messageId) # 0)

\* the conversation after deleteMessage has spliced the message out
WithoutMessage(conv, messageId, t) ==
  [conv EXCEPT
     !.messages = Splice(conv.messages,
                         FindIndex(conv.messages, LAMBDA m : m.id = messageId)),
     !.updatedAt = DateOf(t)]

\* deleteMessage(messageId)
DeleteMessage(messageId, setItemThrows) ==
  /\ Called
  /\ LET data == GetAll
         i == HolderIndex(data, messageId)
     IN IF i = 0
          THEN Throw(Call("deleteMessage", MessageNotFound))
          ELSE SaveAll([data EXCEPT ![i].value = WithoutMessage(@, messageId, clock)],
                       setItemThrows,
                       Call("deleteMessage", Ok))
  /\ UNCHANGED <<hasWindow, clock, uuids>>
  /\ UNCHANGED <<cbVars, rtVars, toVars, sbVars, fcVars, coVars, tbVars, hkVars>>

\* the conversation after updateMessage has assigned the updates
WithUpdatedMessage(conv, messageId, updates, t) ==
  LET k == FindIndex(conv.messages, LAMBDA m : m.id = messageId)
  IN [conv EXCEPT !.messages[k] = Assign(@, updates), !.updatedAt = DateOf(t)]

\* updateMessage(messageId, updates)
UpdateMessage(messageId, updates, setItemThrows) ==
  /\ Called
  /\ LET data == GetAll
         i == HolderIndex(data, messageId)
     IN IF i = 0
          THEN Throw(Call("updateMessage", MessageNotFound))
          ELSE SaveAll([data EXCEPT
                          ![i].value = WithUpdatedMessage(@, messageId, updates, clock)],
                       setItemThrows,
                       Call("updateMessage", Ok))
  /\ UNCHANGED <<hasWindow, clock, uuids>>
  /\ UNCHANGED <<cbVars, rtVars, toVars, sbVars, fcVars, coVars, tbVars, hkVars>>

\* the conversation after updateConversation has assigned the updates
WithUpdates(conv, updates, t) == [Assign(conv, updates) EXCEPT !.updatedAt = DateOf(t)]

\* updateConversation(conversationId, updates)
UpdateConversation(conversationId, updates, setItemThrows) ==
  /\ Called
  /\ LET data == GetAll
         i == KeyIndex(data, conversationId)
         call == Call("updateConversation", Ok)
     IN IF i = 0
          THEN Throw([call EXCEPT !.outcome = ConversationNotFound])
          ELSE SaveAll([data EXCEPT ![i].value = WithUpdates(@, updates, clock)],
                       setItemThrows, call)
  /\ UNCHANGED <<hasWindow, clock, uuids>>
  /\ UNCHANGED <<cbVars, rtVars, toVars, sbVars, fcVars, coVars, tbVars, hkVars>>

\* deleteConversation(conversationId)
DeleteConversation(conversationId, setItemThrows) ==
  /\ Called
  /\ LET data == GetAll
         i == KeyIndex(data, conversationId)
         call == Call("deleteConversation", Ok)
     IN IF i = 0
          THEN Throw([call EXCEPT !.outcome = ConversationNotFound])
          ELSE SaveAll(Splice(data, i), setItemThrows, call)
  /\ UNCHANGED <<hasWindow, clock, uuids>>
  /\ UNCHANGED <<cbVars, rtVars, toVars, sbVars, fcVars, coVars, tbVars, hkVars>>

\* clearAll()
ClearAll ==
  /\ Called
  /\ stored' = IF hasWindow THEN Absent ELSE stored
  /\ lsLast' = Call("clearAll", Ok)
  /\ UNCHANGED <<hasWindow, clock, uuids>>
  /\ UNCHANGED <<cbVars, rtVars, toVars, awVars, sbVars, fcVars, coVars, tbVars, hkVars>>

AnyConversationId == ConversationIds \cup {MissingConversationId}

\* the calls of a caller that waits for each call before it makes the next
CreateConversationAny ==
  \E title \in Titles : \E setItemThrows \in BOOLEAN :
    CreateConversation(title, setItemThrows) /\ UNCHANGED awVars
SaveMessageAny ==
  \E conversationId \in AnyConversationId : \E message \in NewMessages(clock) :
    \E setItemThrows \in BOOLEAN :
      SaveMessage(conversationId, message, setItemThrows) /\ UNCHANGED awVars
DeleteMessageAny ==
  \E messageId \in MessageIds : \E setItemThrows \in BOOLEAN :
    DeleteMessage(messageId, setItemThrows) /\ UNCHANGED awVars
UpdateMessageAny ==
  \E messageId \in MessageIds : \E updates \in MessageUpdates :
    \E setItemThrows \in BOOLEAN :
      UpdateMessage(messageId, updates, setItemThrows) /\ UNCHANGED awVars
UpdateConversationAny ==
  \E conversationId \in AnyConversationId : \E updates \in ConversationUpdates :
    \E setItemThrows \in BOOLEAN :
      UpdateConversation(conversationId, updates, setItemThrows) /\ UNCHANGED awVars
DeleteConversationAny ==
  \E conversationId \in AnyConversationId : \E setItemThrows \in BOOLEAN :
    DeleteConversation(conversationId, setItemThrows) /\ UNCHANGED awVars

LocalNext ==
  \/ LocalTick
  \/ CreateConversationAny
  \/ SaveMessageAny
  \/ DeleteMessageAny
  \/ UpdateMessageAny
  \/ UpdateConversationAny
  \/ DeleteConversationAny
  \/ ClearAll

\* ===================================== callers that do not wait for each other

\* two callers, each making one saveMessage call and awaiting its promise
\* (lib/hooks/useChatHistory.ts, addMessage)
AwaitingCallers == {"first", "second"}

\* the message each caller saves
CallerMessage(c, t) ==
  IF c = "first"
    THEN Message("m1", "user", "Plan a 3-day trip to Kyoto", DateOf(t), Absent)
    ELSE Message("m2", "assistant", "Here is a plan", DateOf(t),
                 Some(MessageMetadata(Some(42), Absent)))

AwaitInit ==
  /\ awPc = [c \in AwaitingCallers |-> "ready"]
  /\ awCall = [c \in AwaitingCallers |-> Absent]

\* no such callers, for the other specifications
AwaitIdle ==
  /\ awPc = [c \in AwaitingCallers |-> "ready"]
  /\ awCall = [c \in AwaitingCallers |-> Absent]

\* the adapter in a browser over the document an earlier session left
LocalEarlier ==
  /\ hasWindow = TRUE
  /\ stored = Some(Stringify(EarlierData))
  /\ uuids = Len(EarlierData)
  /\ clock = 0
  /\ calls = 0
  /\ lsLast = Call("none", Ok)

\* await storage.saveMessage(conversationId, message): the call runs the whole
\* method body, which has no await in it, and returns a settled promise; the
\* caller is suspended until its continuation is run
CallSaveMessage(c, conversationId, setItemThrows) ==
  /\ awPc[c] = "ready"
  /\ SaveMessage(conversationId, CallerMessage(c, clock), setItemThrows)
  /\ awPc' = [awPc EXCEPT ![c] = "awaiting"]
  /\ awCall' = [awCall EXCEPT
                  ![c] = Some([target |-> conversationId,
                               message |-> CallerMessage(c, clock),
                               outcome |-> lsLast'.outcome])]

\* the continuation after the await runs
Resume(c) ==
  /\ awPc[c] = "awaiting"
  /\ awPc' = [awPc EXCEPT ![c] = "resumed"]
  /\ UNCHANGED <<awCall, lsVars>>
  /\ UNCHANGED <<cbVars, rtVars, toVars, sbVars, fcVars, coVars, tbVars, hkVars>>

CallSaveMessageAny ==
  \E c \in AwaitingCallers : \E conversationId \in AnyConversationId :
    \E setItemThrows \in BOOLEAN : CallSaveMessage(c, conversationId, setItemThrows)
ResumeAny == \E c \in AwaitingCallers : Resume(c)

AwaitNext ==
  \/ LocalTick
  \/ CallSaveMessageAny
  \/ ResumeAny

\* ======================================================= SupabaseChatAdapter

\* ---- the backing store: the conversations and messages tables

\* identities that own conversations
Users == {"A", "B"}

ConversationRow(id, user_id, title, created_at, updated_at, metadata) ==
  [id |-> id, user_id |-> user_id, title |-> title, created_at |-> created_at,
   updated_at |-> updated_at, metadata |-> metadata]

MessageRow(id, conversation_id, role, content, created_at, metadata) ==
  [id |-> id, conversation_id |-> conversation_id, role |-> role,
   content |-> content, created_at |-> created_at, metadata |-> metadata]

\* message.metadata || {}
OrEmptyObject(metadata) ==
  IF metadata = Absent THEN Some(MessageMetadata(Absent, Absent)) ELSE metadata

\* the row saveMessage inserts
InsertedMessage(conversationId, message) ==
  MessageRow(message.id, conversationId, message.role, message.content,
             ToISOString(message.timestamp), OrEmptyObject(message.metadata))

\* the row createConversation inserts; created_at and updated_at are one reading
\* of the clock
InsertedConversation(id, title, user, t) ==
  ConversationRow(id, user,
                  IF title = Absent THEN "New Conversation" ELSE title[1],
                  ToISOString(DateOf(t)), ToISOString(DateOf(t)),
                  ConversationMetadata(Some(0), Some(0), Absent))

\* messages.id and conversations.id are primary keys; messages.conversation_id
\* REFERENCES conversations(id) ON DELETE CASCADE
HasConversation(rows, id) == \E row \in rows : row.id = id
HasMessage(rows, id) == \E row \in rows : row.id = id
Cascade(messageRows, conversationRows) ==
  {m \in messageRows : HasConversation(conversationRows, m.conversation_id)}

\* new Date(row.updated_at) of the conversation row with this id
UpdatedAtOf(rows, id) ==
  LET row == CHOOSE r \in rows : r.id = id IN ParseDate(row.updated_at)

\* the rows an earlier session left: a conversation of A holding one message
\* and an empty conversation of B, both written at time 0
EarlierConversations ==
  { InsertedConversation(<<"c", 1>>, Absent, Some("A"), 0),
    InsertedConversation(<<"c", 2>>, Absent, Some("B"), 0) }
EarlierMessages ==
  { InsertedMessage(<<"c", 1>>,
      Message("m1", "user", "Plan a 3-day trip to Kyoto", DateOf(0), Absent)) }

\* ---- the outcome of a call
InFlight == "in flight"
SaveMessageFailed == "Failed to save message"
DeleteMessageFailed == "Failed to delete message"
UpdateMessageFailed == "Failed to update message"
CreateConversationFailed == "Failed to create conversation"
UpdateConversationFailed == "Failed to update conversation"
DeleteConversationFailed == "Failed to delete conversation"
ClearAllFailed == "Failed to clear all"
NoUserId == "Cannot clear all without userId"

\* ---- the read operations; the store is free in the order of the rows a query
\* does not order, so each read has a set of possible results

GetMessagesFailed == "Failed to get messages"
ListConversationsFailed == "Failed to list conversations"
GetConversationFailed == "Failed to get conversation"
\* TypeError: Cannot read properties of undefined (reading 'mapToMessage')
UndefinedThis == "Cannot read properties of undefined"

\* whether .order(column, { ascending }) puts row a before row b; a query
\* without .order() puts no row before another
Before(order, a, b) ==
  IF order = "created_at ascending" THEN a.created_at.iso < b.created_at.iso
  ELSE IF order = "updated_at descending" THEN a.updated_at.iso > b.updated_at.iso
  ELSE FALSE

\* the arrangements of a set of rows in which none comes before a row that
\* the order puts before it
Arrangements(rows, order) ==
  {seq \in [1..Cardinality(rows) -> rows] :
     /\ \A i, j \in 1..Cardinality(rows) : i # j => seq[i] # seq[j]
     /\ \A i, j \in 1..Cardinality(rows) : i < j => ~Before(order, seq[j], seq[i])}

\* the rows a query returns in any order
AnyOrder(rows) == Arrangements(rows, "none")

\* mapToMessage(row)
MapToMessage(row) ==
  Message(row.id, row.role, row.content, ParseDate(row.created_at), row.metadata)

\* Array.prototype.sort with (a, b) => a.timestamp.getTime() - b.timestamp.getTime():
\* a stable sort
InsertByTimestamp(sorted, message) ==
  LET before == {k \in 1..Len(sorted) : sorted[k].timestamp.ms <= message.timestamp.ms}
      n == Cardinality(before)
  IN SubSeq(sorted, 1, n) \o <<message>> \o SubSeq(sorted, n + 1, Len(sorted))

RECURSIVE SortByTimestamp(_)
SortByTimestamp(msgs) ==
  IF msgs = <<>> THEN <<>>
  ELSE InsertByTimestamp(SortByTimestamp(SubSeq(msgs, 1, Len(msgs) - 1)),
                         msgs[Len(msgs)])

\* mapToConversation(row), row.messages being the embedded message rows; the
\* method reads this.mapToMessage, so it throws when called without its this
MapToConversation(hasThis, row, embedded) ==
  IF ~hasThis THEN Rejected(UndefinedThis)
  ELSE Fulfilled(
         [id |-> row.id,
          title |-> row.title,
          messages |-> SortByTimestamp([i \in 1..Len(embedded) |->
                                          MapToMessage(embedded[i])]),
          createdAt |-> ParseDate(row.created_at),
          updatedAt |-> ParseDate(row.updated_at),
          metadata |-> row.metadata])

\* the message rows of a conversation
MessagesOf(conversationId) ==
  {row \in sbMessages : row.conversation_id = conversationId}

\* getMessages(conversationId): the possible results
RemoteGetMessages(conversationId, error) ==
  IF error THEN {Rejected(GetMessagesFailed)}
  ELSE {Fulfilled([i \in 1..Len(rows) |-> MapToMessage(rows[i])]) :
          rows \in Arrangements(MessagesOf(conversationId), "created_at ascending")}

\* getConversation(conversationId): the possible results; .single() reports
\* PGRST116 when no row matches, which gives null
RemoteGetConversation(conversationId, error) ==
  IF ~HasConversation(sbConversations, conversationId) THEN {Fulfilled(Absent)}
  ELSE IF error THEN {Rejected(GetConversationFailed)}
  ELSE LET row == CHOOSE r \in sbConversations : r.id = conversationId
       IN {LET mapped == MapToConversation(TRUE, row, embedded)
           IN Fulfilled(Some(mapped.value)) :
             embedded \in AnyOrder(MessagesOf(conversationId))}

\* the conversation rows listConversations selects
Scoped ==
  IF sbUserId = Absent THEN sbConversations
  ELSE {row \in sbConversations : row.user_id = sbUserId}

\* the messages the select embeds in a conversation row, in the order the
\* store returned them
EmbeddedOf(row) == CHOOSE embedded \in AnyOrder(MessagesOf(row.id)) : TRUE

\* (data || []).map(this.mapToConversation): Array.prototype.map calls the
\* function without a this; the first call that throws ends the map
MapRows(rows) ==
  IF \E i \in 1..Len(rows) :
       MapToConversation(FALSE, rows[i], EmbeddedOf(rows[i])).kind = "thrown"
    THEN Rejected(UndefinedThis)
    ELSE Fulfilled([i \in 1..Len(rows) |->
                      MapToConversation(FALSE, rows[i], EmbeddedOf(rows[i])).value])

\* listConversations(): the possible results
RemoteListConversations(error) ==
  IF error THEN {Rejected(ListConversationsFailed)}
  ELSE {MapRows(rows) : rows \in Arrangements(Scoped, "updated_at descending")}

\* an adapter bound to A or to no identity, over empty tables or over the rows
\* an earlier session left
RemoteInit ==
  /\ sbUserId \in {Absent, Some("A")}
  /\ \/ sbConversations = {} /\ sbMessages = {} /\ sbUuids = 0
     \/ /\ sbConversations = EarlierConversations
        /\ sbMessages = EarlierMessages
        /\ sbUuids = Cardinality(EarlierConversations)
  /\ sbClock = 0
  /\ sbCalls = 0
  /\ sbPc = Absent
  /\ sbLast = Call("none", Ok)

\* the adapter not used, for the other specifications
RemoteIdle ==
  /\ sbUserId = Absent
  /\ sbConversations = {}
  /\ sbMessages = {}
  /\ sbClock = 0
  /\ sbUuids = 0
  /\ sbCalls = 0
  /\ sbPc = Absent
  /\ sbLast = Call("none", Ok)

\* time passes
RemoteTick ==
  /\ sbClock < MaxClock
  /\ sbCalls < MaxRemoteCalls \/ sbPc # Absent
  /\ sbClock' = sbClock + 1
  /\ UNCHANGED <<sbUserId, sbConversations, sbMessages, sbUuids, sbCalls, sbPc, sbLast>>
  /\ UNCHANGED <<cbVars, rtVars, toVars, lsVars, awVars, fcVars, coVars, tbVars, hkVars>>

\* one more adapter call is made, after the one before it has settled
RemoteCalled == sbPc = Absent /\ sbCalls < MaxRemoteCalls /\ sbCalls' = sbCalls + 1

\* a saveMessage that goes on to the update whatever the insert returned
RemoteSaveMessageUnchecked(conversationId, message, error) ==
  /\ RemoteCalled
  /\ IF \/ error
        \/ HasMessage(sbMessages, message.id)
        \/ ~HasConversation(sbConversations, conversationId)
       THEN /\ sbMessages' = sbMessages
            /\ sbLast' = Call("saveMessage", SaveMessageFailed)
       ELSE /\ sbMessages' = sbMessages \cup {InsertedMessage(conversationId, message)}
            /\ sbLast' = Call("saveMessage", InFlight)
  /\ sbPc' = Some(conversationId)
  /\ UNCHANGED <<sbUserId, sbConversations, sbClock, sbUuids>>
  /\ UNCHANGED <<cbVars, rtVars, toVars, lsVars, awVars, fcVars, coVars, tbVars, hkVars>>

\* saveMessage(conversationId, message), up to its second await: the insert,
\* which the store rejects when it fails or when a key constraint is violated
RemoteSaveMessage(conversationId, message, error) ==
  /\ RemoteCalled
  /\ IF \/ error
        \/ HasMessage(sbMessages, message.id)
        \/ ~HasConversation(sbConversations, conversationId)
       THEN /\ sbMessages' = sbMessages
            /\ sbPc' = Absent
            /\ sbLast' = Call("saveMessage", SaveMessageFailed)
       ELSE /\ sbMessages' = sbMessages \cup {InsertedMessage(conversationId, message)}
            /\ sbPc' = Some(conversationId)
            /\ sbLast' = Call("saveMessage", InFlight)
  /\ UNCHANGED <<sbUserId, sbConversations, sbClock, sbUuids>>
  /\ UNCHANGED <<cbVars, rtVars, toVars, lsVars, awVars, fcVars, coVars, tbVars, hkVars>>

\* saveMessage from its second await: the update of the conversation's
\* updated_at, whose error is not looked at
RemoteSaveMessageUpdate(error) ==
  /\ sbPc # Absent
  /\ sbConversations' =
       IF error THEN sbConversations
       ELSE {IF row.id = sbPc[1]
               THEN [row EXCEPT !.updated_at = ToISOString(DateOf(sbClock))]
               ELSE row : row \in sbConversations}
  /\ sbPc' = Absent
  /\ sbLast' = Call("saveMessage", Ok)
  /\ UNCHANGED <<sbUserId, sbMessages, sbClock, sbUuids, sbCalls>>
  /\ UNCHANGED <<cbVars, rtVars, toVars, lsVars, awVars, fcVars, coVars, tbVars, hkVars>>

\* deleteMessage(messageId)
RemoteDeleteMessage(messageId, error) ==
  /\ RemoteCalled
  /\ IF error
       THEN /\ sbMessages' = sbMessages
            /\ sbLast' = Call("deleteMessage", DeleteMessageFailed)
       ELSE /\ sbMessages' = {row \in sbMessages : row.id # messageId}
            /\ sbLast' = Call("deleteMessage", Ok)
  /\ UNCHANGED <<sbUserId, sbConversations, sbClock, sbUuids, sbPc>>
  /\ UNCHANGED <<cbVars, rtVars, toVars, lsVars, awVars, fcVars, coVars, tbVars, hkVars>>

\* updateData of updateMessage: content and metadata, when they are given
UpdatedMessageRow(row, updates) ==
  [row EXCEPT
     !.content = IF updates.content = Absent THEN @ ELSE updates.content[1],
     !.metadata = IF updates.metadata = Absent THEN @ ELSE updates.metadata[1]]

\* updateMessage(messageId, updates)
RemoteUpdateMessage(messageId, updates, error) ==
  /\ RemoteCalled
  /\ IF error
       THEN /\ sbMessages' = sbMessages
            /\ sbLast' = Call("updateMessage", UpdateMessageFailed)
       ELSE /\ sbMessages' = {IF row.id = messageId
                                THEN UpdatedMessageRow(row, updates)
                                ELSE row : row \in sbMessages}
            /\ sbLast' = Call("updateMessage", Ok)
  /\ UNCHANGED <<sbUserId, sbConversations, sbClock, sbUuids, sbPc>>
  /\ UNCHANGED <<cbVars, rtVars, toVars, lsVars, awVars, fcVars, coVars, tbVars, hkVars>>

\* createConversation(title)
RemoteCreateConversation(title, error) ==
  /\ RemoteCalled
  /\ sbUuids < MaxConversations
  /\ sbUuids' = sbUuids + 1
  /\ IF error
       THEN /\ sbConversations' = sbConversations
            /\ sbLast' = Call("createConversation", CreateConversationFailed)
       ELSE /\ sbConversations' = sbConversations \cup
                 {InsertedConversation(<<"c", sbUuids + 1>>, title, sbUserId, sbClock)}
            /\ sbLast' = Call("createConversation", Ok)
  /\ UNCHANGED <<sbUserId, sbMessages, sbClock, sbPc>>
  /\ UNCHANGED <<cbVars, rtVars, toVars, lsVars, awVars, fcVars, coVars, tbVars, hkVars>>

\* updateData of updateConversation: updated_at, and title and metadata when
\* they are given
UpdatedConversationRow(row, updates, t) ==
  [row EXCEPT
     !.updated_at = ToISOString(DateOf(t)),
     !.title = IF updates.title = Absent THEN @ ELSE updates.title[1],
     !.metadata = IF updates.metadata = Absent THEN @ ELSE updates.metadata[1]]

\* updateConversation(conversationId, updates)
RemoteUpdateConversation(conversationId, updates, error) ==
  /\ RemoteCalled
  /\ IF error
       THEN /\ sbConversations' = sbConversations
            /\ sbLast' = Call("updateConversation", UpdateConversationFailed)
       ELSE /\ sbConversations' = {IF row.id = conversationId
                                     THEN UpdatedConversationRow(row, updates, sbClock)
                                     ELSE row : row \in sbConversations}
            /\ sbLast' = Call("updateConversation", Ok)
  /\ UNCHANGED <<sbUserId, sbMessages, sbClock, sbUuids, sbPc>>
  /\ UNCHANGED <<cbVars, rtVars, toVars, lsVars, awVars, fcVars, coVars, tbVars, hkVars>>

\* deleteConversation(conversationId); the store deletes its messages
RemoteDeleteConversation(conversationId, error) ==
  /\ RemoteCalled
  /\ IF error
       THEN /\ UNCHANGED <<sbConversations, sbMessages>>
            /\ sbLast' = Call("deleteConversation", DeleteConversationFailed)
       ELSE LET kept == {row \in sbConversations : row.id # conversationId}
            IN /\ sbConversations' = kept
               /\ sbMessages' = Cascade(sbMessages, kept)
               /\ sbLast' = Call("deleteConversation", Ok)
  /\ UNCHANGED <<sbUserId, sbClock, sbUuids, sbPc>>
  /\ UNCHANGED <<cbVars, rtVars, toVars, lsVars, awVars, fcVars, coVars, tbVars, hkVars>>

\* clearAll without .eq('user_id', this.userId): every user's conversations go
RemoteClearAllEveryUser(error) ==
  /\ RemoteCalled
  /\ IF sbUserId = Absent
       THEN /\ UNCHANGED <<sbConversations, sbMessages>>
            /\ sbLast' = Call("clearAll", NoUserId)
       ELSE IF error
         THEN /\ UNCHANGED <<sbConversations, sbMessages>>
              /\ sbLast' = Call("clearAll", ClearAllFailed)
         ELSE /\ sbConversations' = {}
              /\ sbMessages' = Cascade(sbMessages, {})
              /\ sbLast' = Call("clearAll", Ok)
  /\ UNCHANGED <<sbUserId, sbClock, sbUuids, sbPc>>
  /\ UNCHANGED <<cbVars, rtVars, toVars, lsVars, awVars, fcVars, coVars, tbVars, hkVars>>

\* clearAll()
RemoteClearAll(error) ==
  /\ RemoteCalled
  /\ IF sbUserId = Absent
       THEN /\ UNCHANGED <<sbConversations, sbMessages>>
            /\ sbLast' = Call("clearAll", NoUserId)
       ELSE IF error
         THEN /\ UNCHANGED <<sbConversations, sbMessages>>
              /\ sbLast' = Call("clearAll", ClearAllFailed)
         ELSE LET kept == {row \in sbConversations : row.user_id # sbUserId}
              IN /\ sbConversations' = kept
                 /\ sbMessages' = Cascade(sbMessages, kept)
                 /\ sbLast' = Call("clearAll", Ok)
  /\ UNCHANGED <<sbUserId, sbClock, sbUuids, sbPc>>
  /\ UNCHANGED <<cbVars, rtVars, toVars, lsVars, awVars, fcVars, coVars, tbVars, hkVars>>

\* the Partial<Message> objects that give updateData a column to write
RemoteMessageUpdates == {u \in MessageUpdates : u.content # Absent \/ u.metadata # Absent}

RemoteSaveMessageAny ==
  \E conversationId \in AnyConversationId : \E message \in NewMessages(sbClock) :
    \E error \in BOOLEAN : RemoteSaveMessage(conversationId, message, error)
RemoteSaveMessageUpdateAny == \E error \in BOOLEAN : RemoteSaveMessageUpdate(error)
RemoteDeleteMessageAny ==
  \E messageId \in MessageIds : \E error \in BOOLEAN :
    RemoteDeleteMessage(messageId, error)
RemoteUpdateMessageAny ==
  \E messageId \in MessageIds : \E updates \in RemoteMessageUpdates :
    \E error \in BOOLEAN : RemoteUpdateMessage(messageId, updates, error)
RemoteCreateConversationAny ==
  \E title \in Titles : \E error \in BOOLEAN : RemoteCreateConversation(title, error)
RemoteUpdateConversationAny ==
  \E conversationId \in AnyConversationId : \E updates \in ConversationUpdates :
    \E error \in BOOLEAN : RemoteUpdateConversation(conversationId, updates, error)
RemoteDeleteConversationAny ==
  \E conversationId \in AnyConversationId : \E error \in BOOLEAN :
    RemoteDeleteConversation(conversationId, error)
RemoteClearAllAny == \E error \in BOOLEAN : RemoteClearAll(error)

RemoteNext ==
  \/ RemoteTick
  \/ RemoteSaveMessageAny
  \/ RemoteSaveMessageUpdateAny
  \/ RemoteDeleteMessageAny
  \/ RemoteUpdateMessageAny
  \/ RemoteCreateConversationAny
  \/ RemoteUpdateConversationAny
  \/ RemoteDeleteConversationAny
  \/ RemoteClearAllAny

\* ========================================= createChatStorage and useChatHistory

\* ---- the environment createChatStorage reads
EnvValues == {Absent, Some(""), Some("set")}

\* the userId argument the component passes to the hook on a render
HookUsers == {Absent} \cup {Some(u) : u \in Users}

\* if (supabaseUrl && supabaseKey): undefined and '' are falsy
Truthy(v) == v # Absent /\ v[1] # ""

\* ---- the adapters the factory constructs; instance numbers them in the
\*      order of construction
NewLocalStorageChatAdapter(instance) ==
  [adapter |-> "local", userId |-> Absent, instance |-> instance]

\* constructor(private supabase: any, private userId?: string)
NewSupabaseChatAdapter(user, instance) ==
  [adapter |-> "remote", userId |-> user, instance |-> instance]

ModuleNotFound == "Cannot find module '@supabase/supabase-js'"

\* the factory without its try/catch: a client that fails to load is thrown
\* to the caller
CreateChatStorageNoCatch(user, instance) ==
  IF Truthy(supabaseUrl) /\ Truthy(supabaseKey)
  THEN IF clientLoads
       THEN Fulfilled(NewSupabaseChatAdapter(user, instance))
       ELSE Rejected(ModuleNotFound)
  ELSE Fulfilled(NewLocalStorageChatAdapter(instance))

\* createChatStorage(userId): what the call returns or throws
CreateChatStorage(user, instance) ==
  IF Truthy(supabaseUrl) /\ Truthy(supabaseKey)
  THEN IF clientLoads
       THEN Fulfilled(NewSupabaseChatAdapter(user, instance))
       \* catch (error): two warnings, then the fallback below
       ELSE Fulfilled(NewLocalStorageChatAdapter(instance))
  ELSE Fulfilled(NewLocalStorageChatAdapter(instance))

\* the initializer that runs on every render rather than on the first only
InitializerRunsAlways(current) == TRUE

\* useState(() => createChatStorage(userId)): the initializer runs when the
\* state has no value yet, that is on the first render
InitializerRuns(current) == current = Absent

FactoryInit ==
  /\ supabaseUrl \in EnvValues
  /\ supabaseKey \in EnvValues
  /\ clientLoads \in BOOLEAN
  /\ hookUserId \in HookUsers
  /\ storage = Absent
  /\ constructed = 0
  /\ renders = 0
  /\ served = {}

\* no component uses the hook, for the other specifications
FactoryIdle ==
  /\ supabaseUrl = Absent
  /\ supabaseKey = Absent
  /\ clientLoads = FALSE
  /\ hookUserId = Absent
  /\ storage = Absent
  /\ constructed = 0
  /\ renders = 0
  /\ served = {}

\* the component renders with some userId and calls useChatHistory(userId)
Render(user) ==
  /\ renders < MaxRenders
  /\ renders' = renders + 1
  /\ hookUserId' = user
  /\ IF InitializerRuns(storage)
     THEN /\ storage' = Some(CreateChatStorage(user, constructed + 1))
          /\ constructed' = constructed + 1
     ELSE UNCHANGED <<storage, constructed>>
  /\ UNCHANGED <<supabaseUrl, supabaseKey, clientLoads, served>>
  /\ UNCHANGED <<cbVars, rtVars, toVars, lsVars, awVars, sbVars, coVars, tbVars, hkVars>>

\* one of the hook's callbacks runs and calls storage.<operation>(...)
HookOperation ==
  /\ storage # Absent
  /\ storage[1].kind = "value"
  /\ served' = served \cup {storage[1].value.instance}
  /\ UNCHANGED <<supabaseUrl, supabaseKey, clientLoads, hookUserId, storage,
                 constructed, renders>>
  /\ UNCHANGED <<cbVars, rtVars, toVars, lsVars, awVars, sbVars, coVars, tbVars, hkVars>>

RenderAny == \E user \in HookUsers : Render(user)

FactoryNext ==
  \/ RenderAny
  \/ HookOperation

\* ---- the hook after its first render with userId user, in a deployment
\*      that has both values configured: whether the client loads decides the
\*      adapter the hook holds
Mounted(user, loads) ==
  /\ supabaseUrl = Some("set")
  /\ supabaseKey = Some("set")
  /\ clientLoads = loads
  /\ hookUserId = user
  /\ storage = Some(CreateChatStorage(user, 1))
  /\ constructed = 1
  /\ renders = 1
  /\ served = {1}

\* the adapter the hook holds
Adapter == storage[1].value

\* ====================================================== thread-scoped task board

Threads == {"A", "B"}
TaskColumns == {"todo", "completed"}

\* a Task; title, description, priority, tags and the timestamps are carried
\* by update-task alone and are one field here
Task(id, title, column) == [id |-> id, title |-> title, column |-> column]

\* id: `task-${Date.now()}-${Math.random()...}`, taken to be fresh
TaskId(n) == <<"task", n>>

\* the calls React queues: setTasks with an updater or a value, setIsLoaded(true)
CreateTaskUpdate(newTask) == [set |-> "create-task", newTask |-> newTask]
UpdateTaskUpdate(taskId, title) == [set |-> "update-task", taskId |-> taskId, title |-> title]
MoveTaskUpdate(taskId, toColumn) ==
  [set |-> "move-task", taskId |-> taskId, toColumn |-> toColumn]
DeleteTaskUpdate(taskId) == [set |-> "delete-task", taskId |-> taskId]
SetTasks(value) == [set |-> "tasks", value |-> value]
SetIsLoaded == [set |-> "isLoaded"]

\* prev.filter((task) => task.id !== taskId)
Filter(prev, taskId) == SelectSeq(prev, LAMBDA task : task.id # taskId)

\* the value of tasks after one queued call
ApplyUpdate(update, prev) ==
  CASE update.set = "create-task" -> Append(prev, update.newTask)
    [] update.set = "update-task" ->
         [i \in 1..Len(prev) |->
            IF prev[i].id = update.taskId
              THEN [prev[i] EXCEPT !.title = update.title] ELSE prev[i]]
    [] update.set = "move-task" ->
         [i \in 1..Len(prev) |->
            IF prev[i].id = update.taskId
              THEN [prev[i] EXCEPT !.column = update.toColumn] ELSE prev[i]]
    [] update.set = "delete-task" -> Filter(prev, update.taskId)
    [] update.set = "tasks" -> update.value
    [] update.set = "isLoaded" -> prev

\* React runs the queued calls in order when it renders
RECURSIVE ApplyUpdates(_, _)
ApplyUpdates(updates, prev) ==
  IF updates = <<>> THEN prev
  ELSE ApplyUpdates(Tail(updates), ApplyUpdate(Head(updates), prev))

\* Record<string, ThreadState>: per thread Absent or Some([tasks |-> ...])
NoThreadStates == [thread \in Threads |-> Absent]
ThreadState(value) == Some([tasks |-> value])

\* JSON.stringify / JSON.parse of the thread states: ids, titles and columns
\* are strings and are written and read back as they are; a thread without
\* a state has no property
StringifyThreadStates(states) ==
  {<<thread, states[thread][1].tasks>> : thread \in {t \in Threads : states[t] # Absent}}
ParseThreadStates(text) ==
  [thread \in Threads |->
     IF \E pair \in text : pair[1] = thread
       THEN ThreadState((CHOOSE pair \in text : pair[1] = thread)[2])
       ELSE Absent]

\* what an earlier session left in localStorage: a board of thread A
EarlierTasks == <<Task(TaskId(1), "Write tests", "todo")>>
EarlierThreadStates == [NoThreadStates EXCEPT !["A"] = ThreadState(EarlierTasks)]

TaskBoardInit ==
  /\ currentThreadId = "A"
  /\ tasks = <<>>
  /\ isLoaded = FALSE
  /\ pendingUpdates = <<>>
  /\ lastRender = Absent
  /\ effectPending = FALSE
  /\ threadStates = NoThreadStates
  /\ previousThreadId = "A"
  /\ toolCalls = 0
  /\ switches = 0
  /\ \/ /\ savedThreadStates = Absent
        /\ taskIds = 0
        /\ createdIn = <<>>
        /\ expected = [thread \in Threads |-> <<>>]
     \/ /\ savedThreadStates = Some(StringifyThreadStates(EarlierThreadStates))
        /\ taskIds = Len(EarlierTasks)
        /\ createdIn = [i \in 1..Len(EarlierTasks) |-> "A"]
        /\ expected = [thread \in Threads |-> IF thread = "A" THEN EarlierTasks ELSE <<>>]

\* the page is not open, for the other specifications
TaskBoardIdle ==
  /\ currentThreadId = "A"
  /\ tasks = <<>>
  /\ isLoaded = FALSE
  /\ pendingUpdates = <<>>
  /\ lastRender = Absent
  /\ effectPending = FALSE
  /\ threadStates = NoThreadStates
  /\ previousThreadId = "A"
  /\ toolCalls = 0
  /\ switches = 0
  /\ savedThreadStates = Absent
  /\ taskIds = 0
  /\ createdIn = <<>>
  /\ expected = [thread \in Threads |-> <<>>]

\* what a render closes over
Closure(thread, value, loaded) ==
  [currentThreadId |-> thread, tasks |-> value, isLoaded |-> loaded]

\* the first render and the effects of its commit: the load effect reads
\* localStorage, the thread-switching effect returns because isLoaded is false
Mount ==
  /\ lastRender = Absent
  /\ lastRender' = Some(Closure(currentThreadId, tasks, isLoaded))
  /\ previousThreadId' = currentThreadId
  /\ IF savedThreadStates # Absent
       THEN LET parsed == ParseThreadStates(savedThreadStates[1])
                currentState == parsed[currentThreadId]
            IN /\ threadStates' = parsed
               /\ pendingUpdates' =
                    IF currentState # Absent
                      THEN <<SetTasks(currentState[1].tasks), SetIsLoaded>>
                      ELSE <<SetIsLoaded>>
       ELSE /\ pendingUpdates' = <<SetIsLoaded>>
            /\ UNCHANGED threadStates
  /\ UNCHANGED <<currentThreadId, tasks, isLoaded, effectPending, savedThreadStates,
                 taskIds, toolCalls, switches, createdIn, expected>>
  /\ UNCHANGED <<cbVars, rtVars, toVars, lsVars, awVars, sbVars, fcVars, coVars, hkVars>>

\* React renders: the queued calls are run in order, the component function
\* runs with the store's current thread, and the commit schedules the
\* thread-switching effect (its dependencies changed).  The effect of the
\* commit before has run by then.
Rerender ==
  /\ lastRender # Absent
  /\ ~effectPending
  /\ pendingUpdates # <<>> \/ currentThreadId # lastRender[1].currentThreadId
  /\ tasks' = ApplyUpdates(pendingUpdates, tasks)
  /\ isLoaded' = (isLoaded \/ \E i \in 1..Len(pendingUpdates) : pendingUpdates[i] = SetIsLoaded)
  /\ pendingUpdates' = <<>>
  /\ lastRender' = Some(Closure(currentThreadId, tasks', isLoaded'))
  /\ effectPending' = TRUE
  /\ UNCHANGED <<currentThreadId, threadStates, previousThreadId, savedThreadStates,
                 taskIds, toolCalls, switches, createdIn, expected>>
  /\ UNCHANGED <<cbVars, rtVars, toVars, lsVars, awVars, sbVars, fcVars, coVars, hkVars>>

\* the thread-switching and persistence effect runs with the values its
\* render closed over
ThreadEffect ==
  /\ effectPending
  /\ effectPending' = FALSE
  /\ LET r == lastRender[1]
     IN IF ~r.isLoaded
          THEN UNCHANGED <<threadStates, previousThreadId, pendingUpdates, savedThreadStates>>
          ELSE /\ IF previousThreadId # r.currentThreadId
                    THEN LET saved == [threadStates EXCEPT
                                         ![previousThreadId] = ThreadState(r.tasks)]
                             newThreadState == saved[r.currentThreadId]
                         IN /\ threadStates' = saved
                            /\ pendingUpdates' =
                                 Append(pendingUpdates,
                                        SetTasks(IF newThreadState # Absent
                                                   THEN newThreadState[1].tasks
                                                   ELSE <<>>))
                            /\ previousThreadId' = r.currentThreadId
                    ELSE /\ threadStates' = [threadStates EXCEPT
                                               ![r.currentThreadId] = ThreadState(r.tasks)]
                         /\ UNCHANGED <<pendingUpdates, previousThreadId>>
               /\ savedThreadStates' = Some(StringifyThreadStates(threadStates'))
  /\ UNCHANGED <<currentThreadId, tasks, isLoaded, lastRender, taskIds, toolCalls,
                 switches, createdIn, expected>>
  /\ UNCHANGED <<cbVars, rtVars, toVars, lsVars, awVars, sbVars, fcVars, coVars, hkVars>>

\* the user picks another thread: the store's currentThreadId changes
SwitchThread(thread) ==
  /\ lastRender # Absent
  /\ switches < MaxSwitches
  /\ thread # currentThreadId
  /\ currentThreadId' = thread
  /\ switches' = switches + 1
  /\ UNCHANGED <<tasks, isLoaded, pendingUpdates, lastRender, effectPending, threadStates,
                 previousThreadId, savedThreadStates, taskIds, toolCalls, createdIn,
                 expected>>
  /\ UNCHANGED <<cbVars, rtVars, toVars, lsVars, awVars, sbVars, fcVars, coVars, hkVars>>

\* a tool's execute calls setTasks with an updater: React queues it
ToolExecutes(update) ==
  /\ lastRender # Absent
  /\ toolCalls < MaxToolCalls
  /\ toolCalls' = toolCalls + 1
  /\ pendingUpdates' = Append(pendingUpdates, update)
  /\ expected' = [expected EXCEPT ![currentThreadId] = ApplyUpdate(update, @)]
  /\ UNCHANGED <<currentThreadId, tasks, isLoaded, lastRender, effectPending, threadStates,
                 previousThreadId, savedThreadStates, switches>>
  /\ UNCHANGED <<cbVars, rtVars, toVars, lsVars, awVars, sbVars, fcVars, coVars, hkVars>>

\* create-task
ExecuteCreateTask(column) ==
  /\ taskIds < MaxTasks
  /\ ToolExecutes(CreateTaskUpdate(Task(TaskId(taskIds + 1), "New task", column)))
  /\ taskIds' = taskIds + 1
  /\ createdIn' = Append(createdIn, currentThreadId)

\* update-task, move-task, delete-task (and the board's delete button)
ExecuteUpdateTask(taskId, title) ==
  ToolExecutes(UpdateTaskUpdate(taskId, title)) /\ UNCHANGED <<taskIds, createdIn>>
ExecuteMoveTask(taskId, toColumn) ==
  ToolExecutes(MoveTaskUpdate(taskId, toColumn)) /\ UNCHANGED <<taskIds, createdIn>>
ExecuteDeleteTask(taskId) ==
  ToolExecutes(DeleteTaskUpdate(taskId)) /\ UNCHANGED <<taskIds, createdIn>>

\* the task ids a tool call may name
KnownTaskIds == {TaskId(n) : n \in 1..taskIds}

SwitchThreadAny == \E thread \in Threads : SwitchThread(thread)
ExecuteCreateTaskAny == \E column \in TaskColumns : ExecuteCreateTask(column)
ExecuteUpdateTaskAny == \E taskId \in KnownTaskIds : ExecuteUpdateTask(taskId, "Renamed")
ExecuteMoveTaskAny ==
  \E taskId \in KnownTaskIds : \E toColumn \in TaskColumns :
    ExecuteMoveTask(taskId, toColumn)
ExecuteDeleteTaskAny == \E taskId \in KnownTaskIds : ExecuteDeleteTask(taskId)

TaskBoardNext ==
  \/ Mount
  \/ Rerender
  \/ ThreadEffect
  \/ SwitchThreadAny
  \/ ExecuteCreateTaskAny
  \/ ExecuteUpdateTaskAny
  \/ ExecuteMoveTaskAny
  \/ ExecuteDeleteTaskAny

\* ============================================================ useChatHistory

\* a Conversation as the hook and the adapter exchange it; a message is
\* known by its id
HookConversation(id, title, messages) == [id |-> id, title |-> title, messages |-> messages]

\* ---- the ChatStorageAdapter behind the hook: what each method does to the
\*      conversations it holds and what it returns or throws
StorageFailure == "storage failure"
HasStored(store, id) == \E i \in 1..Len(store) : store[i].id = id
StoredConversation(store, id) == store[CHOOSE i \in 1..Len(store) : store[i].id = id]

\* createConversation(title)
StorageCreateConversation(store, id, title) ==
  Append(store, HookConversation(id, IF title = Absent THEN "New Conversation" ELSE title[1],
                                 <<>>))

\* saveMessage(conversationId, message)
StorageSaveMessage(store, id, message) ==
  [i \in 1..Len(store) |->
     IF store[i].id = id
       THEN [store[i] EXCEPT !.messages = Append(@, message)] ELSE store[i]]

\* updateConversation(conversationId, { title })
StorageUpdateTitle(store, id, title) ==
  [i \in 1..Len(store) |->
     IF store[i].id = id THEN [store[i] EXCEPT !.title = title] ELSE store[i]]

\* deleteConversation(conversationId)
StorageDeleteConversation(store, id) == SelectSeq(store, LAMBDA c : c.id # id)

\* ---- a call of one of the hook's actions
\* op: the action; pc: the await it is suspended at, or "done";
\* closure: the currentConversation its useCallback closed over;
\* arg: its conversationId; title: its title; message: the fullMessage it built;
\* target: the conversation it saves into; settled: how the awaited storage
\* call settled; outcome: how the call itself settled;
\* before: the conversations and currentConversation when it was made;
\* overlapped: another call was in flight at some time during it
HookCall(op, pc, closure, arg, title, message, target, settled, before, overlapped) ==
  [op |-> op, pc |-> pc, closure |-> closure, arg |-> arg, title |-> title,
   message |-> message, target |-> target, settled |-> settled, outcome |-> Pending,
   before |-> before, overlapped |-> overlapped]

InFlightCalls == {n \in 1..Len(hkCalls) : hkCalls[n].pc # "done"}

\* what an earlier session left in storage
EarlierStore ==
  << HookConversation(<<"c", 1>>, "Trip Planning", << <<"m", 1>> >>),
     HookConversation(<<"c", 2>>, "New Conversation", <<>>) >>

\* the hook once the loadConversations() of its mount effect has completed,
\* over an empty store or over the earlier one
HookInit ==
  /\ hkError = Absent
  /\ hkCalls = <<>>
  /\ hkIsLoading = FALSE
  /\ \/ /\ hkStore = <<>>
        /\ hkUuids = 0
        /\ hkConversations = <<>>
        /\ hkCurrentConversation = Absent
     \/ /\ hkStore = EarlierStore
        /\ hkUuids = 2
        /\ hkConversations = EarlierStore
        /\ hkCurrentConversation = Some(EarlierStore[1])

\* the hook is not used, for the other specifications
HookIdle ==
  /\ hkConversations = <<>>
  /\ hkCurrentConversation = Absent
  /\ hkIsLoading = TRUE
  /\ hkError = Absent
  /\ hkStore = <<>>
  /\ hkCalls = <<>>
  /\ hkUuids = 0

\* the hook's state when a call is made
StateBefore == [conversations |-> hkConversations, currentConversation |-> hkCurrentConversation]

\* a call is made: it and the calls in flight overlap each other
Started(record) ==
  Append([n \in 1..Len(hkCalls) |->
            IF hkCalls[n].pc # "done" THEN [hkCalls[n] EXCEPT !.overlapped = TRUE]
            ELSE hkCalls[n]],
         record)

\* call n returns or throws
Finished(n, outcome) == [hkCalls EXCEPT ![n].pc = "done", ![n].outcome = outcome]

Awaiting(n, op, pc) == n \in 1..Len(hkCalls) /\ hkCalls[n].op = op /\ hkCalls[n].pc = pc

\* loadConversations() up to await storage.listConversations()
CallLoadConversations(failure) ==
  /\ Len(hkCalls) < MaxHookCalls
  /\ hkIsLoading' = TRUE
  /\ hkError' = Absent
  /\ hkCalls' = Started(HookCall("loadConversations", "await", hkCurrentConversation,
                                 Absent, Absent, Absent, Absent,
                                 IF failure THEN Rejected(StorageFailure)
                                 ELSE Fulfilled(hkStore),
                                 StateBefore, InFlightCalls # {}))
  /\ UNCHANGED <<hkConversations, hkCurrentConversation, hkStore, hkUuids>>
  /\ UNCHANGED <<cbVars, rtVars, toVars, lsVars, awVars, sbVars, fcVars, coVars, tbVars>>

\* loadConversations() after the await
ResumeLoadConversations(n) ==
  /\ Awaiting(n, "loadConversations", "await")
  /\ LET settled == hkCalls[n].settled
     IN IF settled.kind = "value"
          THEN /\ hkConversations' = settled.value
               /\ hkCurrentConversation' =
                    IF hkCalls[n].closure = Absent /\ Len(settled.value) > 0
                      THEN Some(settled.value[1]) ELSE hkCurrentConversation
               /\ UNCHANGED hkError
          ELSE /\ hkError' = Some(settled.error)
               /\ UNCHANGED <<hkConversations, hkCurrentConversation>>
  /\ hkIsLoading' = FALSE
  /\ hkCalls' = Finished(n, Fulfilled(Absent))
  /\ UNCHANGED <<hkStore, hkUuids>>
  /\ UNCHANGED <<cbVars, rtVars, toVars, lsVars, awVars, sbVars, fcVars, coVars, tbVars>>

\* storage.createConversation(title): the store and how the promise settles
RequestCreate(title, failure) ==
  LET created == HookConversation(<<"c", hkUuids + 1>>,
                                  IF title = Absent THEN "New Conversation" ELSE title[1],
                                  <<>>)
  IN IF failure
       THEN [store |-> hkStore, settled |-> Rejected(StorageFailure)]
       ELSE [store |-> StorageCreateConversation(hkStore, created.id, title),
             settled |-> Fulfilled(created)]

\* createNewConversation(title) up to await storage.createConversation(title)
CallCreateNewConversation(title, failure) ==
  /\ Len(hkCalls) < MaxHookCalls
  /\ hkError' = Absent
  /\ LET request == RequestCreate(title, failure)
     IN /\ hkStore' = request.store
        /\ hkCalls' = Started(HookCall("createNewConversation", "await",
                                       hkCurrentConversation, Absent, title, Absent,
                                       Absent, request.settled, StateBefore,
                                       InFlightCalls # {}))
  /\ hkUuids' = hkUuids + 1
  /\ UNCHANGED <<hkConversations, hkCurrentConversation, hkIsLoading>>
  /\ UNCHANGED <<cbVars, rtVars, toVars, lsVars, awVars, sbVars, fcVars, coVars, tbVars>>

\* createNewConversation after the await
ResumeCreateNewConversation(n) ==
  /\ Awaiting(n, "createNewConversation", "await")
  /\ LET settled == hkCalls[n].settled
     IN IF settled.kind = "value"
          THEN /\ hkConversations' = <<settled.value>> \o hkConversations
               /\ hkCurrentConversation' = Some(settled.value)
               /\ hkCalls' = Finished(n, settled)
               /\ UNCHANGED hkError
          ELSE /\ hkError' = Some(settled.error)
               /\ hkCalls' = Finished(n, settled)
               /\ UNCHANGED <<hkConversations, hkCurrentConversation>>
  /\ UNCHANGED <<hkIsLoading, hkStore, hkUuids>>
  /\ UNCHANGED <<cbVars, rtVars, toVars, lsVars, awVars, sbVars, fcVars, coVars, tbVars>>

\* switchConversation(conversationId) up to await storage.getConversation(...)
CallSwitchConversation(conversationId, failure) ==
  /\ Len(hkCalls) < MaxHookCalls
  /\ hkError' = Absent
  /\ hkCalls' = Started(HookCall("switchConversation", "await", hkCurrentConversation,
                                 Some(conversationId), Absent, Absent, Absent,
                                 IF failure THEN Rejected(StorageFailure)
                                 ELSE IF HasStored(hkStore, conversationId)
                                   THEN Fulfilled(Some(StoredConversation(hkStore,
                                                                          conversationId)))
                                   ELSE Fulfilled(Absent),
                                 StateBefore, InFlightCalls # {}))
  /\ UNCHANGED <<hkConversations, hkCurrentConversation, hkIsLoading, hkStore, hkUuids>>
  /\ UNCHANGED <<cbVars, rtVars, toVars, lsVars, awVars, sbVars, fcVars, coVars, tbVars>>

\* switchConversation after the await; a failure is not rethrown
ResumeSwitchConversation(n) ==
  /\ Awaiting(n, "switchConversation", "await")
  /\ LET settled == hkCalls[n].settled
     IN IF settled.kind = "value"
          THEN /\ hkCurrentConversation' =
                    IF settled.value # Absent THEN settled.value ELSE hkCurrentConversation
               /\ UNCHANGED hkError
          ELSE /\ hkError' = Some(settled.error)
               /\ UNCHANGED hkCurrentConversation
  /\ hkCalls' = Finished(n, Fulfilled(Absent))
  /\ UNCHANGED <<hkConversations, hkIsLoading, hkStore, hkUuids>>
  /\ UNCHANGED <<cbVars, rtVars, toVars, lsVars, awVars, sbVars, fcVars, coVars, tbVars>>

\* storage.saveMessage(conversationId, message): the store and how the promise
\* settles; a conversation the store does not hold is refused
RequestSave(store, conversationId, message, failure) ==
  IF failure \/ ~HasStored(store, conversationId)
    THEN [store |-> store, settled |-> Rejected(StorageFailure)]
    ELSE [store |-> StorageSaveMessage(store, conversationId, message),
          settled |-> Fulfilled(Absent)]

\* addMessage(message) up to its first await: createNewConversation() when
\* the currentConversation it closed over is null, else storage.saveMessage
CallAddMessage(failure) ==
  /\ Len(hkCalls) < MaxHookCalls
  /\ hkError' = Absent
  /\ hkUuids' = hkUuids + 1
  /\ IF hkCurrentConversation = Absent
       THEN LET request == RequestCreate(Absent, failure)
            IN /\ hkStore' = request.store
               /\ hkCalls' = Started(HookCall("addMessage", "awaitCreate", Absent, Absent,
                                              Absent, Absent, Absent, request.settled,
                                              StateBefore, InFlightCalls # {}))
       ELSE LET fullMessage == <<"m", hkUuids + 1>>
                target == hkCurrentConversation[1].id
                request == RequestSave(hkStore, target, fullMessage, failure)
            IN /\ hkStore' = request.store
               /\ hkCalls' = Started(HookCall("addMessage", "awaitSave",
                                              hkCurrentConversation, Absent, Absent,
                                              Some(fullMessage), Some(target),
                                              request.settled, StateBefore,
                                              InFlightCalls # {}))
  /\ UNCHANGED <<hkConversations, hkCurrentConversation, hkIsLoading>>
  /\ UNCHANGED <<cbVars, rtVars, toVars, lsVars, awVars, sbVars, fcVars, coVars, tbVars>>

\* addMessage after await createNewConversation(): the rest of
\* createNewConversation, then fullMessage and storage.saveMessage
ResumeAddMessageCreated(n, failure) ==
  /\ Awaiting(n, "addMessage", "awaitCreate")
  /\ LET settled == hkCalls[n].settled
     IN IF settled.kind = "value"
          THEN LET fullMessage == <<"m", hkUuids + 1>>
                   request == RequestSave(hkStore, settled.value.id, fullMessage, failure)
               IN /\ hkConversations' = <<settled.value>> \o hkConversations
                  /\ hkCurrentConversation' = Some(settled.value)
                  /\ hkStore' = request.store
                  /\ hkUuids' = hkUuids + 1
                  /\ hkCalls' = [hkCalls EXCEPT ![n].pc = "awaitSave",
                                                 ![n].message = Some(fullMessage),
                                                 ![n].target = Some(settled.value.id),
                                                 ![n].settled = request.settled]
                  /\ UNCHANGED hkError
          ELSE /\ hkError' = Some(settled.error)
               /\ hkCalls' = Finished(n, settled)
               /\ UNCHANGED <<hkConversations, hkCurrentConversation, hkStore, hkUuids>>
  /\ UNCHANGED hkIsLoading
  /\ UNCHANGED <<cbVars, rtVars, toVars, lsVars, awVars, sbVars, fcVars, coVars, tbVars>>

\* the messages of a conversation with one more
WithFullMessage(c, message) == [c EXCEPT !.messages = Append(@, message)]

\* addMessage after await storage.saveMessage(...)
ResumeAddMessageSaved(n) ==
  /\ Awaiting(n, "addMessage", "awaitSave")
  /\ LET settled == hkCalls[n].settled
         fullMessage == hkCalls[n].message[1]
         target == hkCalls[n].target[1]
     IN IF settled.kind = "value"
          THEN /\ hkCurrentConversation' =
                    IF hkCurrentConversation = Absent THEN Absent
                    ELSE Some(WithFullMessage(hkCurrentConversation[1], fullMessage))
               /\ hkConversations' =
                    [i \in 1..Len(hkConversations) |->
                       IF hkConversations[i].id = target
                         THEN WithFullMessage(hkConversations[i], fullMessage)
                         ELSE hkConversations[i]]
               /\ hkCalls' = Finished(n, Fulfilled(fullMessage))
               /\ UNCHANGED hkError
          ELSE /\ hkError' = Some(settled.error)
               /\ hkCalls' = Finished(n, settled)
               /\ UNCHANGED <<hkConversations, hkCurrentConversation>>
  /\ UNCHANGED <<hkIsLoading, hkStore, hkUuids>>
  /\ UNCHANGED <<cbVars, rtVars, toVars, lsVars, awVars, sbVars, fcVars, coVars, tbVars>>

\* deleteConversation(conversationId) up to await storage.deleteConversation(...)
CallDeleteConversation(conversationId, failure) ==
  /\ Len(hkCalls) < MaxHookCalls
  /\ hkError' = Absent
  /\ hkStore' = IF failure THEN hkStore
                ELSE StorageDeleteConversation(hkStore, conversationId)
  /\ hkCalls' = Started(HookCall("deleteConversation", "await", hkCurrentConversation,
                                 Some(conversationId), Absent, Absent, Absent,
                                 IF failure THEN Rejected(StorageFailure)
                                 ELSE Fulfilled(Absent),
                                 StateBefore, InFlightCalls # {}))
  /\ UNCHANGED <<hkConversations, hkCurrentConversation, hkIsLoading, hkUuids>>
  /\ UNCHANGED <<cbVars, rtVars, toVars, lsVars, awVars, sbVars, fcVars, coVars, tbVars>>

\* deleteConversation after the await
ResumeDeleteConversation(n) ==
  /\ Awaiting(n, "deleteConversation", "await")
  /\ LET settled == hkCalls[n].settled
         conversationId == hkCalls[n].arg[1]
         closure == hkCalls[n].closure
     IN IF settled.kind = "value"
          THEN /\ hkConversations' =
                    SelectSeq(hkConversations, LAMBDA c : c.id # conversationId)
               /\ hkCurrentConversation' =
                    IF closure # Absent /\ closure[1].id = conversationId
                      THEN Absent ELSE hkCurrentConversation
               /\ UNCHANGED hkError
          ELSE /\ hkError' = Some(settled.error)
               /\ UNCHANGED <<hkConversations, hkCurrentConversation>>
  /\ hkCalls' = Finished(n, hkCalls[n].settled)
  /\ UNCHANGED <<hkIsLoading, hkStore, hkUuids>>
  /\ UNCHANGED <<cbVars, rtVars, toVars, lsVars, awVars, sbVars, fcVars, coVars, tbVars>>

\* updateConversationTitle(conversationId, title) up to the await
CallUpdateConversationTitle(conversationId, title, failure) ==
  /\ Len(hkCalls) < MaxHookCalls
  /\ hkError' = Absent
  /\ hkStore' = IF failure THEN hkStore
                ELSE StorageUpdateTitle(hkStore, conversationId, title)
  /\ hkCalls' = Started(HookCall("updateConversationTitle", "await",
                                 hkCurrentConversation, Some(conversationId),
                                 Some(title), Absent, Absent,
                                 IF failure THEN Rejected(StorageFailure)
                                 ELSE Fulfilled(Absent),
                                 StateBefore, InFlightCalls # {}))
  /\ UNCHANGED <<hkConversations, hkCurrentConversation, hkIsLoading, hkUuids>>
  /\ UNCHANGED <<cbVars, rtVars, toVars, lsVars, awVars, sbVars, fcVars, coVars, tbVars>>

\* updateConversationTitle after the await
ResumeUpdateConversationTitle(n) ==
  /\ Awaiting(n, "updateConversationTitle", "await")
  /\ LET settled == hkCalls[n].settled
         conversationId == hkCalls[n].arg[1]
         title == hkCalls[n].title[1]
         closure == hkCalls[n].closure
     IN IF settled.kind = "value"
          THEN /\ hkConversations' =
                    [i \in 1..Len(hkConversations) |->
                       IF hkConversations[i].id = conversationId
                         THEN [hkConversations[i] EXCEPT !.title = title]
                         ELSE hkConversations[i]]
               /\ hkCurrentConversation' =
                    IF closure # Absent /\ closure[1].id = conversationId
                         /\ hkCurrentConversation # Absent
                      THEN Some([hkCurrentConversation[1] EXCEPT !.title = title])
                      ELSE hkCurrentConversation
               /\ UNCHANGED hkError
          ELSE /\ hkError' = Some(settled.error)
               /\ UNCHANGED <<hkConversations, hkCurrentConversation>>
  /\ hkCalls' = Finished(n, hkCalls[n].settled)
  /\ UNCHANGED <<hkIsLoading, hkStore, hkUuids>>
  /\ UNCHANGED <<cbVars, rtVars, toVars, lsVars, awVars, sbVars, fcVars, coVars, tbVars>>

\* clearAllHistory() up to await storage.clearAll()
CallClearAllHistory(failure) ==
  /\ Len(hkCalls) < MaxHookCalls
  /\ hkError' = Absent
  /\ hkStore' = IF failure THEN hkStore ELSE <<>>
  /\ hkCalls' = Started(HookCall("clearAllHistory", "await", hkCurrentConversation,
                                 Absent, Absent, Absent, Absent,
                                 IF failure THEN Rejected(StorageFailure)
                                 ELSE Fulfilled(Absent),
                                 StateBefore, InFlightCalls # {}))
  /\ UNCHANGED <<hkConversations, hkCurrentConversation, hkIsLoading, hkUuids>>
  /\ UNCHANGED <<cbVars, rtVars, toVars, lsVars, awVars, sbVars, fcVars, coVars, tbVars>>

\* clearAllHistory after the await
ResumeClearAllHistory(n) ==
  /\ Awaiting(n, "clearAllHistory", "await")
  /\ IF hkCalls[n].settled.kind = "value"
       THEN /\ hkConversations' = <<>>
            /\ hkCurrentConversation' = Absent
            /\ UNCHANGED hkError
       ELSE /\ hkError' = Some(hkCalls[n].settled.error)
            /\ UNCHANGED <<hkConversations, hkCurrentConversation>>
  /\ hkCalls' = Finished(n, hkCalls[n].settled)
  /\ UNCHANGED <<hkIsLoading, hkStore, hkUuids>>
  /\ UNCHANGED <<cbVars, rtVars, toVars, lsVars, awVars, sbVars, fcVars, coVars, tbVars>>

\* the conversation ids a caller may name: those listed, those stored
HookConversationIds ==
  {hkConversations[i].id : i \in 1..Len(hkConversations)}
    \cup {hkStore[i].id : i \in 1..Len(hkStore)}

CallLoadConversationsAny == \E failure \in BOOLEAN : CallLoadConversations(failure)
CallCreateNewConversationAny ==
  \E failure \in BOOLEAN : CallCreateNewConversation(Absent, failure)
CallSwitchConversationAny ==
  \E conversationId \in HookConversationIds : \E failure \in BOOLEAN :
    CallSwitchConversation(conversationId, failure)
CallAddMessageAny == \E failure \in BOOLEAN : CallAddMessage(failure)
CallDeleteConversationAny ==
  \E conversationId \in HookConversationIds : \E failure \in BOOLEAN :
    CallDeleteConversation(conversationId, failure)
CallUpdateConversationTitleAny ==
  \E conversationId \in HookConversationIds : \E failure \in BOOLEAN :
    CallUpdateConversationTitle(conversationId, "Kyoto", failure)
CallClearAllHistoryAny == \E failure \in BOOLEAN : CallClearAllHistory(failure)
ResumeLoadConversationsAny == \E n \in 1..Len(hkCalls) : ResumeLoadConversations(n)
ResumeCreateNewConversationAny == \E n \in 1..Len(hkCalls) : ResumeCreateNewConversation(n)
ResumeSwitchConversationAny == \E n \in 1..Len(hkCalls) : ResumeSwitchConversation(n)
ResumeAddMessageCreatedAny ==
  \E n \in 1..Len(hkCalls) : \E failure \in BOOLEAN : ResumeAddMessageCreated(n, failure)
ResumeAddMessageSavedAny == \E n \in 1..Len(hkCalls) : ResumeAddMessageSaved(n)
ResumeDeleteConversationAny == \E n \in 1..Len(hkCalls) : ResumeDeleteConversation(n)
ResumeUpdateConversationTitleAny ==
  \E n \in 1..Len(hkCalls) : ResumeUpdateConversationTitle(n)
ResumeClearAllHistoryAny == \E n \in 1..Len(hkCalls) : ResumeClearAllHistory(n)

HookNext ==
  \/ CallLoadConversationsAny
  \/ ResumeLoadConversationsAny
  \/ CallCreateNewConversationAny
  \/ ResumeCreateNewConversationAny
  \/ CallSwitchConversationAny
  \/ ResumeSwitchConversationAny
  \/ CallAddMessageAny
  \/ ResumeAddMessageCreatedAny
  \/ ResumeAddMessageSavedAny
  \/ CallDeleteConversationAny
  \/ ResumeDeleteConversationAny
  \/ CallUpdateConversationTitleAny
  \/ ResumeUpdateConversationTitleAny
  \/ CallClearAllHistoryAny
  \/ ResumeClearAllHistoryAny

\* ============================================================ specifications

InitCB == CBInit /\ RetryIdle /\ TimeoutIdle /\ LocalIdle /\ AwaitIdle /\ RemoteIdle
  /\ FactoryIdle
  /\ ComposedIdle
  /\ TaskBoardIdle
  /\ HookIdle
SpecCB == InitCB /\ [][CBNext]_vars

InitRetry == RetryInit /\ CBIdle /\ TimeoutIdle /\ LocalIdle /\ AwaitIdle /\ RemoteIdle
  /\ FactoryIdle
  /\ ComposedIdle
  /\ TaskBoardIdle
  /\ HookIdle
SpecRetry == InitRetry /\ [][RetryNext]_vars

InitTimeout == TimeoutInit /\ CBIdle /\ RetryIdle /\ LocalIdle /\ AwaitIdle /\ RemoteIdle
  /\ FactoryIdle
  /\ ComposedIdle
  /\ TaskBoardIdle
  /\ HookIdle
SpecTimeout == InitTimeout /\ [][TimeoutNext]_vars

InitLocal == LocalInit /\ CBIdle /\ RetryIdle /\ TimeoutIdle /\ AwaitIdle /\ RemoteIdle
  /\ FactoryIdle
  /\ ComposedIdle
  /\ TaskBoardIdle
  /\ HookIdle
SpecLocal == InitLocal /\ [][LocalNext]_vars

\* the event loop keeps running the callers and their continuations
InitAwait ==
  AwaitInit /\ LocalEarlier /\ CBIdle /\ RetryIdle /\ TimeoutIdle /\ RemoteIdle
  /\ FactoryIdle
  /\ ComposedIdle
  /\ TaskBoardIdle
  /\ HookIdle
SpecAwait == InitAwait /\ [][AwaitNext]_vars /\ WF_vars(AwaitNext)

\* the remote adapter, called by a caller that waits for each call
InitRemote ==
  RemoteInit /\ CBIdle /\ RetryIdle /\ TimeoutIdle /\ LocalIdle /\ AwaitIdle
  /\ FactoryIdle
  /\ ComposedIdle
  /\ TaskBoardIdle
  /\ HookIdle
SpecRemote == InitRemote /\ [][RemoteNext]_vars

InitFactory ==
  FactoryInit /\ CBIdle /\ RetryIdle /\ TimeoutIdle /\ LocalIdle /\ AwaitIdle
  /\ RemoteIdle
  /\ ComposedIdle
  /\ TaskBoardIdle
  /\ HookIdle
SpecFactory == InitFactory /\ [][FactoryNext]_vars

\* withRetry with the default options around withTimeout with the default message
InitComposed ==
  ComposedInit /\ CBIdle /\ RetryIdle /\ TimeoutIdle /\ LocalIdle /\ AwaitIdle
  /\ RemoteIdle /\ FactoryIdle
  /\ TaskBoardIdle
  /\ HookIdle
SpecComposed == InitComposed /\ [][ComposedNext]_vars

\* the task board page: thread switches, tool executions, renders and effects
InitTaskBoard ==
  TaskBoardInit /\ CBIdle /\ RetryIdle /\ TimeoutIdle /\ LocalIdle /\ AwaitIdle
  /\ RemoteIdle /\ FactoryIdle /\ ComposedIdle
  /\ HookIdle
SpecTaskBoard == InitTaskBoard /\ [][TaskBoardNext]_vars

\* the hook's actions, called without waiting for each other
InitHook ==
  HookInit /\ CBIdle /\ RetryIdle /\ TimeoutIdle /\ LocalIdle /\ AwaitIdle
  /\ RemoteIdle /\ FactoryIdle /\ ComposedIdle /\ TaskBoardIdle
SpecHook == InitHook /\ [][HookNext]_vars

\* the adapter createChatStorage returned and the operations the hook runs on
\* it: the local adapter over localStorage, or the remote adapter, bound to
\* the hook's userId, over the tables
InitAdapters ==
  /\ CBIdle /\ RetryIdle /\ TimeoutIdle /\ AwaitIdle
  /\ \/ Mounted(Absent, FALSE) /\ LocalInit /\ RemoteIdle
     \/ RemoteInit /\ Mounted(sbUserId, TRUE) /\ LocalIdle
  /\ ComposedIdle
  /\ TaskBoardIdle
  /\ HookIdle

AdaptersNext ==
  \/ Adapter.adapter = "local" /\ LocalNext
  \/ Adapter.adapter = "remote" /\ RemoteNext

SpecAdapters == InitAdapters /\ [][AdaptersNext]_vars

\* ---------------------------------------------------- CircuitBreaker claims

\* C1: as soon as onFailure records the threshold-th consecutive failure the
\* state is 'open'; and an execute call made while the state is 'open' and
\* now - lastFailureTime <= timeout is rejected with the 'service temporarily
\* unavailable' error, does not invoke fn, and leaves state, failures and
\* lastFailureTime as they were.
C1_OpenRejectsWithoutInvoking ==
  [][ /\ \A c \in Callers : \A e \in FnErrors :
           (FnFail(c, e) /\ TrailingFailures(recent') >= threshold)
             => state' = "open"
      /\ \A c \in Callers :
           (Execute(c) /\ state = "open" /\ now - lastFailureTime <= timeout)
             => /\ callResult'[c] = CircuitOpenMessage
                /\ callKind'[c] = "none"
                /\ callPc'[c] = "idle"
                /\ state' = "open"
                /\ failures' = failures
                /\ lastFailureTime' = lastFailureTime ]_vars

\* a call was rejected by the open breaker, right after `threshold` failures in a row
C1_Witness ==
  /\ state = "open"
  /\ TrailingFailures(recent) >= threshold
  /\ now - lastFailureTime <= timeout
  /\ \E c \in Callers : callResult[c] = CircuitOpenMessage /\ callKind[c] = "none"

\* C2: an execute call made while the state is 'open' and more than `timeout`
\* after lastFailureTime moves the state to 'half-open' and invokes fn; when
\* that probe succeeds the state is 'closed' and failures is 0.
C2_CooldownProbeCloses ==
  [][ /\ \A c \in Callers :
           (Execute(c) /\ state = "open" /\ now - lastFailureTime > timeout)
             => /\ state' = "half-open"
                /\ callPc'[c] = "running"
                /\ callKind'[c] # "none"
      /\ \A c \in Callers : \A v \in FnValues :
           (FnSucceed(c, v) /\ callKind[c] = "probe")
             => /\ state' = "closed"
                /\ failures' = 0
                /\ callResult'[c] = v ]_vars

\* a probe was let through after the cooldown and its success closed the breaker
C2_Witness ==
  /\ state = "closed"
  /\ failures = 0
  /\ \E c \in Callers : callKind[c] = "probe" /\ callResult[c] \in FnValues
  /\ recent # <<>> /\ recent[Len(recent)] = "success"

\* C3: a call that fails while the state is 'half-open' puts the breaker back
\* in 'open' with lastFailureTime set to the time of that failure (so the
\* cooldown has not elapsed right after it), and execute rethrows the error of
\* the call itself.
C3_FailedProbeReopens ==
  [][ \A c \in Callers : \A e \in FnErrors :
        (FnFail(c, e) /\ state = "half-open")
          => /\ state' = "open"
             /\ lastFailureTime' = now
             /\ ~(now' - lastFailureTime' > timeout)
             /\ callResult'[c] = e ]_vars

\* a probe let through after the cooldown has failed and reopened the breaker
C3_Witness ==
  /\ state = "open"
  /\ lastFailureTime = now
  /\ lastFailureTime > 0
  /\ \E c \in Callers : callKind[c] = "probe" /\ callResult[c] \in FnErrors

\* --------------------------------------------------------- withRetry claims

\* C4: when fn() succeeds on attempt k+1 after k retryable failures, withRetry
\* has returned that value and fn was invoked exactly k+1 times, k+1 being at
\* most maxRetries (failing twice then succeeding with maxRetries = 3: three
\* invocations).
C4_SuccessAfterRetries ==
  /\ fnLast.kind = "value"
       => /\ rtPc = "done"
          /\ rtResult.kind = "value"
          /\ rtResult.value = fnLast.value
          /\ rejectedSeen = 0
          /\ invocations = retryableSeen + 1
          /\ invocations <= opts.maxRetries
  /\ rtResult.kind = "value" => fnLast.kind = "value"
  /\ (fnLast.kind = "value" /\ opts.maxRetries = 3 /\ retryableSeen = 2)
       => invocations = 3

\* fails twice, then succeeds, with maxRetries = 3
C4_Witness ==
  /\ opts.maxRetries = 3
  /\ retryableSeen = 2
  /\ rtPc = "done"
  /\ rtResult = [kind |-> "value", value |-> "value A"]
  /\ invocations = 3

\* C5: an error that shouldRetry refuses ends withRetry at once: the very value
\* fn rejected with is thrown (not wrapped), no wait follows it and fn is not
\* invoked again; if that was the first attempt, fn was invoked exactly once.
C5_NonRetryablePropagates ==
  /\ rejectedSeen <= 1
  /\ rejectedSeen = 1
       => /\ rtPc = "done"
          /\ fnLast.kind = "thrown"
          /\ rtResult.kind = "thrown"
          /\ rtResult.error = fnLast.error
          /\ ~ShouldRetry(rtResult.error)
          /\ Len(waits) = invocations - 1
          /\ invocations = retryableSeen + 1
  /\ rtResult.kind = "thrown" => rejectedSeen = 1
  /\ (rejectedSeen = 1 /\ retryableSeen = 0) => (invocations = 1 /\ waits = <<>>)

\* the default shouldRetry refused a thrown value, and it came back as it was
C5_Witness ==
  /\ rtPc = "done"
  /\ rtResult = [kind |-> "thrown", error |-> ThrownString]
  /\ opts.shouldRetry = "isRetryableError"
  /\ invocations = 1
  /\ waits = <<>>

\* C6 as stated: when every attempt failed with a retryable error, fn was
\* invoked exactly maxRetries times with maxRetries - 1 waits, and the LLMError
\* wraps the error of the last attempt.
C6_Original ==
  (rtResult.kind = "LLMError" /\ invocations >= 1)
    => /\ invocations = opts.maxRetries
       /\ Len(waits) = opts.maxRetries - 1
       /\ rtResult.details.originalError = fnLast.error

\* C6 as amended: ... the LLMError wraps the value the last attempt rejected with
\* when that is an Error, and Error('Unknown error') when it is not.
C6_ExhaustionWrapsLastError ==
  (rtResult.kind = "LLMError" /\ invocations >= 1)
    => /\ rtPc = "done"
       /\ invocations = opts.maxRetries
       /\ retryableSeen = opts.maxRetries
       /\ rejectedSeen = 0
       /\ Len(waits) = opts.maxRetries - 1
       /\ fnLast.kind = "thrown"
       /\ rtResult.details.originalError =
            IF fnLast.error.type = "Error"
              THEN fnLast.error
              ELSE [type |-> "Error", message |-> <<"U", "n", "k", "n", "o", "w", "n", " ", "e", "r", "r", "o", "r">>]

\* three retryable failures out of three attempts, the last one an Error
C6_Witness ==
  /\ rtResult.kind = "LLMError"
  /\ opts.maxRetries = 3
  /\ invocations = 3
  /\ Len(waits) = 2
  /\ rtResult.details.originalError = ServerError

\* the wait that follows failed attempt i, by repeated multiplication
RECURSIVE GrownDelay(_, _, _)
GrownDelay(base, mult, i) == IF i = 0 THEN base ELSE mult * GrownDelay(base, mult, i - 1)

\* C7: the wait after failed attempt i (0-based, i < maxRetries - 1) is
\* min(baseDelay * backoffMultiplier^i, maxDelay), never more than maxDelay;
\* with baseDelay 1000, backoffMultiplier 2 and maxDelay 3000 the waits are
\* 1000, 2000, 3000 (then 3000 again), never 4000.
C7_BackoffCapped ==
  /\ \A i \in 1..Len(waits) :
       /\ i - 1 < opts.maxRetries - 1
       /\ LET g == GrownDelay(opts.baseDelay, opts.backoffMultiplier, i - 1)
          IN waits[i] = IF g <= opts.maxDelay THEN g ELSE opts.maxDelay
       /\ waits[i] <= opts.maxDelay
  /\ (opts.baseDelay = 1000 /\ opts.backoffMultiplier = 2 /\ opts.maxDelay = 3000)
       => \A i \in 1..Len(waits) :
            waits[i] = IF i = 1 THEN 1000 ELSE IF i = 2 THEN 2000 ELSE 3000

\* the documented example, up to the capped third wait
C7_Witness ==
  /\ opts.baseDelay = 1000 /\ opts.backoffMultiplier = 2 /\ opts.maxDelay = 3000
  /\ waits = <<1000, 2000, 3000>>

\* ------------------------------------------------------- withTimeout claims

\* C8: the promise withTimeout returns settles exactly once, as whichever of
\* the operation and the timer settled first: with the operation's own value or
\* error, or with an Error carrying the timeout message; what settles later
\* never changes it, and the timer firing leaves the operation as it is.
C8_FirstSettlementWins ==
  /\ [](/\ firstSettled = "none" => raced.kind = "pending"
        /\ firstSettled = "promise" => (promise.kind # "pending" /\ raced = promise)
        /\ firstSettled = "timer"
             => /\ timer = "fired"
                /\ raced.kind = "thrown"
                /\ raced.error.type = "Error"
                /\ raced.error.message =
                     IF errorMessage = <<>>
                       THEN <<"O", "p", "e", "r", "a", "t", "i", "o", "n", " ",
                              "t", "i", "m", "e", "d", " ", "o", "u", "t">>
                       ELSE errorMessage[1])
  /\ [][raced.kind # "pending" => raced' = raced]_vars
  /\ [][TimerFires => promise' = promise]_vars

\* the timer won, and the operation, still running, settled afterwards
C8_Witness ==
  /\ firstSettled = "timer"
  /\ raced = [kind |-> "thrown", error |-> TimedOutError]
  /\ promise.kind = "value"

\* --------------------------------------------- LocalStorageChatAdapter claims

RECURSIVE SumTokens(_)
SumTokens(messages) ==
  IF messages = <<>> THEN 0
  ELSE TokensOf(messages[1]) + SumTokens(SubSeq(messages, 2, Len(messages)))

\* C9: after every successful saveMessage, deleteMessage, updateMessage or
\* updateConversation, each conversation's metadata.messageCount (when it has
\* one) is the number of its messages and its metadata.totalTokens (when it has
\* one) is the sum of its messages' metadata.tokens.
C9_MetadataMirrorsMessages ==
  (/\ lsLast.outcome = Ok
   /\ lsLast.op \in {"saveMessage", "deleteMessage", "updateMessage", "updateConversation"})
    => \A i \in 1..Len(GetAll) :
         LET conv == GetAll[i].value
         IN /\ conv.metadata.messageCount # Absent
                 => conv.metadata.messageCount[1] = Len(conv.messages)
            /\ conv.metadata.totalTokens # Absent
                 => conv.metadata.totalTokens[1] = SumTokens(conv.messages)

\* C10: a successful saveMessage(id, m) on an existing conversation, whatever
\* happened to it before, leaves m as the last element of getMessages(id) and
\* getConversation(id).metadata.messageCount exactly 1 greater than it was.
C10_SaveAppendsAndCounts ==
  [][ \A id \in ConversationIds : \A m \in NewMessages(clock) :
        \A setItemThrows \in BOOLEAN :
          (/\ SaveMessage(id, m, setItemThrows)
           /\ lsLast'.outcome = Ok
           /\ GetConversation(id) # Absent)
            => /\ GetMessages(id)' # <<>>
               /\ GetMessages(id)'[Len(GetMessages(id)')] = m
               /\ GetConversation(id)' # Absent
               /\ GetConversation(id)[1].metadata.messageCount # Absent
                    => GetConversation(id)'[1].metadata.messageCount
                         = Some(GetConversation(id)[1].metadata.messageCount[1] + 1) ]_vars

\* C11: a createConversation() call that returns a conversation, followed by
\* getConversation of the returned id, yields a conversation (not null) with
\* no messages, createdAt equal to updatedAt, and metadata.messageCount and
\* metadata.totalTokens both 0.
C11_CreateThenGet ==
  [][ \A title \in Titles : \A setItemThrows \in BOOLEAN :
      \A id \in ConversationIds :
        (/\ CreateConversation(title, setItemThrows)
         /\ id = <<"c", uuids + 1>>
         /\ lsLast'.outcome = Ok)
          => /\ GetConversation(id)' # Absent
             /\ GetConversation(id)'[1].messages = <<>>
             /\ GetConversation(id)'[1].createdAt = GetConversation(id)'[1].updatedAt
             /\ GetConversation(id)'[1].metadata.messageCount = Some(0)
             /\ GetConversation(id)'[1].metadata.totalTokens = Some(0) ]_vars

\* no conversation of the document is stored under this id
NoSuchConversation(data, id) == \A i \in 1..Len(data) : data[i].key # id

\* no message of the document has this id
NoSuchMessage(data, messageId) ==
  \A i \in 1..Len(data) :
    \A k \in 1..Len(data[i].value.messages) :
      data[i].value.messages[k].id # messageId

C13_DeletionCascade ==
  [][ \A id \in ConversationIds : \A setItemThrows \in BOOLEAN :
        (/\ DeleteConversation(id, setItemThrows)
         /\ lsLast'.outcome = Ok)
          => /\ GetMessages(id)' = <<>>
             /\ GetConversation(id)' = Absent
             /\ \A k \in 1..Len(ListConversations') : ListConversations'[k].id # id
             /\ \A k \in 1..Len(GetMessages(id)) :
                  \A messageId \in MessageIds :
                    GetMessages(id)[k].id = messageId => NoSuchMessage(GetAll, messageId)'
             /\ \A other \in ConversationIds \ {id} :
                  GetConversation(other)' = GetConversation(other) ]_vars

\* the key of the conversation updateMessage and deleteMessage act on
HolderKey(messageId) == GetAll[HolderIndex(GetAll, messageId)].key

\* the conversation stored under this key heads the list
HeadsList(id, list) == list # <<>> /\ Some(list[1]) = GetConversation(id)

\* C14: listConversations() is always sorted by updatedAt descending, and a
\* successful saveMessage, updateMessage, deleteMessage or updateConversation
\* leaves the conversation it changed as the first element of
\* listConversations().
C14_MutatedMovesToFront ==
  [][ /\ \A k \in 1..Len(ListConversations') : \A l \in k..Len(ListConversations') :
           ListConversations'[k].updatedAt.ms >= ListConversations'[l].updatedAt.ms
      /\ \A setItemThrows \in BOOLEAN :
           /\ \A id \in ConversationIds :
                (/\ \/ \E m \in NewMessages(clock) : SaveMessage(id, m, setItemThrows)
                    \/ \E updates \in ConversationUpdates :
                         UpdateConversation(id, updates, setItemThrows)
                 /\ lsLast'.outcome = Ok)
                  => HeadsList(id, ListConversations)'
           /\ \A messageId \in MessageIds : \A id \in ConversationIds :
                (/\ \/ \E updates \in MessageUpdates :
                         UpdateMessage(messageId, updates, setItemThrows)
                    \/ DeleteMessage(messageId, setItemThrows)
                 /\ lsLast'.outcome = Ok
                 /\ id = HolderKey(messageId))
                  => HeadsList(id, ListConversations)' ]_vars

\* message.metadata?.[key]
MetadataKey(message, key) ==
  IF message.metadata = Absent THEN Absent ELSE message.metadata[1][key]

\* the position in a conversation's messages of the message with this id
MessageIndex(conv, messageId) == FindIndex(conv.messages, LAMBDA m : m.id = messageId)

\* C16: a successful updateMessage whose updates carry a metadata bag leaves
\* every metadata key the bag does not name (tokens when only error is
\* supplied) at the value the message had before.
C16_UpdateMergesMetadata ==
  [][ \A messageId \in MessageIds : \A updates \in MessageUpdates :
      \A setItemThrows \in BOOLEAN :
      \A i \in 1..MaxConversations : \A k \in 1..MaxMessages :
        (/\ UpdateMessage(messageId, updates, setItemThrows)
         /\ lsLast'.outcome = Ok
         /\ i = HolderIndex(GetAll, messageId)
         /\ k = MessageIndex(GetAll[i].value, messageId)
         /\ updates.metadata # Absent
         /\ updates.metadata[1] # Absent)
          => \A key \in {"tokens", "error"} :
               updates.metadata[1][1][key] = Absent
                 => MetadataKey(GetAll'[i].value.messages[k], key)
                      = MetadataKey(GetAll[i].value.messages[k], key) ]_vars

\* the fields of a message that are fixed when it is saved
Immutable(message) == <<message.id, message.role, message.timestamp>>

\* C17: whatever the adapter call, every conversation the document holds
\* after it is stored under the key equal to its id and, if it was there
\* before, has the createdAt it had; and each of its messages either has the
\* id, role and timestamp of a message it held before or is the message a
\* saveMessage has just appended.
C17_ImmutableFields ==
  [][ LET before == GetAll
          after == GetAll'
      IN \A j \in 1..Len(after) :
           /\ after[j].value.id = after[j].key
           /\ \A i \in 1..Len(before) :
                before[i].key = after[j].key
                  => /\ after[j].value.createdAt = before[i].value.createdAt
                     /\ \A k \in 1..Len(after[j].value.messages) :
                          \/ \E l \in 1..Len(before[i].value.messages) :
                               Immutable(after[j].value.messages[k])
                                 = Immutable(before[i].value.messages[l])
                          \/ /\ lsLast'.op = "saveMessage"
                             /\ k = Len(after[j].value.messages) ]_vars

\* C18: no message id occurs in two conversations of the persisted document,
\* nor twice in one conversation.
C18_MessageIdsUnique ==
  LET data == GetAll
  IN \A i \in 1..Len(data) : \A j \in 1..Len(data) :
       \A k \in 1..Len(data[i].value.messages) :
         \A l \in 1..Len(data[j].value.messages) :
           data[i].value.messages[k].id = data[j].value.messages[l].id
             => i = j /\ k = l

\* the conversation holds a message with this id
Holds(conv, messageId) ==
  \E k \in 1..Len(conv.messages) : conv.messages[k].id = messageId

\* C19: a successful deleteMessage(messageId) removes one message, the first
\* with that id in the first conversation (in Object.values order) that holds
\* one: that conversation's other messages keep their order and content, and
\* the messages of every other conversation are as they were.
C19_DeleteRemovesFirstMatch ==
  [][ LET before == GetAll
          after == GetAll'
      IN \A messageId \in MessageIds : \A setItemThrows \in BOOLEAN :
         \A i \in 1..MaxConversations : \A k \in 1..MaxMessages :
           (/\ lsLast'.op = "deleteMessage"
            /\ lsLast'.outcome = Ok
            /\ DeleteMessage(messageId, setItemThrows)
            /\ i <= Len(before)
            /\ Holds(before[i].value, messageId)
            /\ \A j \in 1..(i - 1) : ~Holds(before[j].value, messageId)
            /\ k <= Len(before[i].value.messages)
            /\ before[i].value.messages[k].id = messageId
            /\ \A l \in 1..(k - 1) : before[i].value.messages[l].id # messageId)
             => /\ Len(after) = Len(before)
                /\ Len(after[i].value.messages) = Len(before[i].value.messages) - 1
                /\ \A l \in 1..Len(after[i].value.messages) :
                     after[i].value.messages[l]
                       = before[i].value.messages[IF l < k THEN l ELSE l + 1]
                /\ \A j \in 1..Len(before) :
                     j # i => after[j].value.messages = before[j].value.messages ]_vars

\* deleteMessage('m1') has removed the message from the first conversation and
\* left the message with the same id in the second one
C19_Witness ==
  /\ lsLast = Call("deleteMessage", Ok)
  /\ Len(GetAll) = 2
  /\ ~Holds(GetAll[1].value, "m1")
  /\ Len(GetAll[1].value.messages) = 1
  /\ Holds(GetAll[2].value, "m1")

\* ------------------------------------------------- unawaited callers' claims

\* the document now in the store
Persisted == IF stored = Absent THEN EmptyData ELSE Parse(stored[1])

\* the callers whose saveMessage call on this conversation reported success
Saved(id) ==
  {c \in AwaitingCallers :
     /\ awCall[c] # Absent
     /\ awCall[c][1].outcome = Ok
     /\ awCall[c][1].target = id}

\* the persisted messages of the i-th conversation are those it had when the
\* session began followed by the message of every call that reported success
ReflectsEverySave(i) ==
  LET base == EarlierData[i].value.messages
      current == Persisted[i].value.messages
      saved == Saved(EarlierData[i].key)
  IN /\ Len(current) = Len(base) + Cardinality(saved)
     /\ SubSeq(current, 1, Len(base)) = base
     /\ \A c \in saved :
          \E k \in (Len(base) + 1)..Len(current) : current[k] = awCall[c][1].message

\* both callers' calls reported success on one conversation and the persisted
\* document does not hold both messages
LostUpdate ==
  \E i \in 1..Len(EarlierData) :
    /\ Saved(EarlierData[i].key) = AwaitingCallers
    /\ ~ReflectsEverySave(i)

BelongsTo(messageId, id) ==
  \E row \in sbMessages : row.id = messageId /\ row.conversation_id = id

\* C15 (remote adapter): whenever saveMessage, updateMessage, deleteMessage or
\* updateConversation completes successfully on a conversation that exists, or
\* on a message of it, that conversation's updatedAt is the current time
\* afterwards.
C15_MutationSetsUpdatedAt ==
  [][\A id \in ConversationIds : \A error \in BOOLEAN :
       /\ HasConversation(sbConversations, id)
       /\ sbLast'.outcome = Ok
       /\ \/ sbPc = Some(id) /\ RemoteSaveMessageUpdate(error)
          \/ \E messageId \in MessageIds :
               /\ BelongsTo(messageId, id)
               /\ \/ RemoteDeleteMessage(messageId, error)
                  \/ \E updates \in RemoteMessageUpdates :
                       RemoteUpdateMessage(messageId, updates, error)
          \/ \E updates \in ConversationUpdates :
               RemoteUpdateConversation(id, updates, error)
       => UpdatedAtOf(sbConversations', id) = DateOf(sbClock')]_vars

\* the stored document cannot be read: no window, nothing stored, or a text
\* JSON.parse throws on
Unreadable == ~hasWindow \/ stored = Absent \/ JSONParseThrows(stored[1])

\* the message is in the stored document, under this conversation
Persists(data, conversationId, message) ==
  LET i == KeyIndex(data, conversationId)
  IN i # 0 /\ \E k \in 1..Len(data[i].value.messages) :
                data[i].value.messages[k] = message

\* C21: a stored document that cannot be read is read as the empty document
\* and the read operations answer from it without raising; a mutating call
\* whose write was not persisted does not report success: after a successful
\* createConversation or saveMessage the stored document holds what was
\* written, and a call whose setItem threw does not end with success.
C21_FailureSemantics ==
  [][LET data == GetAll
     IN /\ Unreadable =>
             /\ data = EmptyData
             /\ ListConversations = <<>>
             /\ \A id \in AnyConversationId :
                  GetMessages(id) = <<>> /\ GetConversation(id) = Absent
        /\ \A id \in ConversationIds : \A title \in Titles : \A threw \in BOOLEAN :
             /\ lsLast'.op = "createConversation"
             /\ id = <<"c", uuids + 1>>
             /\ CreateConversation(title, threw)
             /\ lsLast'.outcome = Ok
             => /\ KeyIndex(GetAll, id)' # 0
                /\ ~(hasWindow /\ threw)
        /\ \A id \in ConversationIds : \A message \in NewMessages(clock) :
             \A threw \in BOOLEAN :
               /\ lsLast'.op = "saveMessage"
               /\ SaveMessage(id, message, threw)
               /\ lsLast'.outcome = Ok
               => /\ Persists(GetAll, id, message)'
                  /\ ~(hasWindow /\ threw)]_vars

\* the call that has just been made did not fail
NotFailed == sbLast'.outcome \in {Ok, InFlight}

\* C22 (remote adapter): saveMessage, updateConversation and deleteConversation
\* on a conversation id with no row, and updateMessage and deleteMessage on a
\* message id with no row, fail.
C22_RemoteMissingRowFails ==
  [][\A error \in BOOLEAN :
       /\ \A id \in AnyConversationId :
            /\ ~HasConversation(sbConversations, id)
            /\ \/ \E message \in NewMessages(sbClock) :
                    RemoteSaveMessage(id, message, error)
               \/ \E updates \in ConversationUpdates :
                    RemoteUpdateConversation(id, updates, error)
               \/ RemoteDeleteConversation(id, error)
            => ~NotFailed
       /\ \A messageId \in MessageIds :
            /\ ~HasMessage(sbMessages, messageId)
            /\ \/ RemoteDeleteMessage(messageId, error)
               \/ \E updates \in RemoteMessageUpdates :
                    RemoteUpdateMessage(messageId, updates, error)
            => ~NotFailed]_vars

\* C23 (remote adapter): a call of the backing store that returns an error
\* makes the adapter operation fail with the error naming that operation; this
\* includes the update of updated_at inside saveMessage.
C23_RemoteErrorsSurface ==
  [][/\ (\E id \in AnyConversationId : \E message \in NewMessages(sbClock) :
           RemoteSaveMessage(id, message, TRUE))
        => sbLast' = Call("saveMessage", SaveMessageFailed)
     /\ RemoteSaveMessageUpdate(TRUE)
        => sbLast' = Call("saveMessage", SaveMessageFailed)
     /\ (\E messageId \in MessageIds : RemoteDeleteMessage(messageId, TRUE))
        => sbLast' = Call("deleteMessage", DeleteMessageFailed)
     /\ (\E messageId \in MessageIds : \E updates \in RemoteMessageUpdates :
           RemoteUpdateMessage(messageId, updates, TRUE))
        => sbLast' = Call("updateMessage", UpdateMessageFailed)
     /\ (\E title \in Titles : RemoteCreateConversation(title, TRUE))
        => sbLast' = Call("createConversation", CreateConversationFailed)
     /\ (\E id \in AnyConversationId : \E updates \in ConversationUpdates :
           RemoteUpdateConversation(id, updates, TRUE))
        => sbLast' = Call("updateConversation", UpdateConversationFailed)
     /\ (\E id \in AnyConversationId : RemoteDeleteConversation(id, TRUE))
        => sbLast' = Call("deleteConversation", DeleteConversationFailed)
     /\ (sbUserId # Absent /\ RemoteClearAll(TRUE))
        => sbLast' = Call("clearAll", ClearAllFailed)]_vars

\* C24 (remote adapter): saveMessage inserts the message row first and touches
\* the conversations table only after the insert has succeeded; a failed
\* insert ends the call with no conversation row changed; when the update of
\* updated_at fails the inserted row stays and the conversation rows are as
\* they were.
C24_SaveMessageTwoSteps ==
  [][/\ \A id \in AnyConversationId : \A message \in NewMessages(sbClock) :
          \A error \in BOOLEAN :
            RemoteSaveMessage(id, message, error) =>
              /\ sbConversations' = sbConversations
              /\ IF sbLast' = Call("saveMessage", SaveMessageFailed)
                   THEN sbMessages' = sbMessages /\ sbPc' = Absent
                   ELSE /\ InsertedMessage(id, message) \in sbMessages'
                        /\ sbPc' = Some(id)
     /\ (sbLast'.op = "saveMessage" /\ sbConversations' # sbConversations)
        => sbLast = Call("saveMessage", InFlight)
     /\ \A error \in BOOLEAN :
          RemoteSaveMessageUpdate(error) =>
            /\ sbLast = Call("saveMessage", InFlight)
            /\ sbMessages' = sbMessages
            /\ \E row \in sbMessages' : row.conversation_id = sbPc[1]
            /\ error => sbConversations' = sbConversations
            /\ ~error /\ HasConversation(sbConversations, sbPc[1])
               => UpdatedAtOf(sbConversations', sbPc[1]) = DateOf(sbClock)]_vars

\* saveMessage has completed and a message of a conversation is newer than the
\* conversation's updated_at: the second step failed after the first succeeded
C24_Witness ==
  /\ sbLast = Call("saveMessage", Ok)
  /\ \E row \in sbMessages : \E conv \in sbConversations :
       /\ row.conversation_id = conv.id
       /\ ParseDate(row.created_at).ms > ParseDate(conv.updated_at).ms

\* the rows of users other than the one the adapter is bound to
OthersConversations == {row \in sbConversations : row.user_id # sbUserId}
OthersMessages ==
  {row \in sbMessages : HasConversation(OthersConversations, row.conversation_id)}

\* C25 (remote adapter): for an adapter bound to a user, a conversation of
\* another user reads as absent and its messages as none, and a call addressed
\* to it or to one of its messages fails and leaves the other users' rows as
\* they were.
C25_ScopeIsolation ==
  [][sbUserId # Absent =>
       \A id \in ConversationIds :
         HasConversation(OthersConversations, id) =>
           /\ RemoteGetConversation(id, FALSE) = {Fulfilled(Absent)}
           /\ RemoteGetMessages(id, FALSE) = {Fulfilled(<<>>)}
           /\ \A error \in BOOLEAN :
                \/ \E message \in NewMessages(sbClock) :
                     RemoteSaveMessage(id, message, error)
                \/ \E updates \in ConversationUpdates :
                     RemoteUpdateConversation(id, updates, error)
                \/ RemoteDeleteConversation(id, error)
                \/ \E messageId \in MessageIds :
                     /\ BelongsTo(messageId, id)
                     /\ \/ RemoteDeleteMessage(messageId, error)
                        \/ \E updates \in RemoteMessageUpdates :
                             RemoteUpdateMessage(messageId, updates, error)
                => /\ ~NotFailed
                   /\ OthersConversations' = OthersConversations
                   /\ OthersMessages' = OthersMessages]_vars

\* the ids of the conversations in a result of listConversations
ListedIds(result) == {result.value[i].id : i \in 1..Len(result.value)}

\* C27 (remote adapter): listConversations returns exactly the conversations
\* whose user_id is the bound identity, or every conversation of the table
\* when no identity is bound; a conversation created through the adapter has
\* the adapter's identity as its user_id.
C27_ListScoping ==
  [][/\ \A result \in RemoteListConversations(FALSE) :
          /\ result.kind = "value"
          /\ ListedIds(result) =
               {row.id : row \in {r \in sbConversations :
                                    sbUserId = Absent \/ r.user_id = sbUserId}}
     /\ \A title \in Titles :
          RemoteCreateConversation(title, FALSE) =>
            \E row \in sbConversations' :
              /\ row.id = <<"c", sbUuids + 1>>
              /\ row.user_id = sbUserId]_vars

\* C28 (remote adapter): when the query of listConversations returns one or
\* more rows without error, listConversations returns one Conversation per
\* row, latest updated_at first, each with its own messages in ascending
\* order of timestamp.
C28_ListReturnsSortedConversations ==
  Scoped # {} =>
    \A result \in RemoteListConversations(FALSE) :
      /\ result.kind = "value"
      /\ Len(result.value) = Cardinality(Scoped)
      /\ \A i, j \in 1..Len(result.value) :
           i < j => result.value[i].updatedAt.ms >= result.value[j].updatedAt.ms
      /\ \A i \in 1..Len(result.value) :
           LET conv == result.value[i]
           IN /\ {conv.messages[k].id : k \in 1..Len(conv.messages)} =
                   {row.id : row \in MessagesOf(conv.id)}
              /\ Len(conv.messages) = Cardinality(MessagesOf(conv.id))
              /\ \A k, l \in 1..Len(conv.messages) :
                   k < l => conv.messages[k].timestamp.ms <= conv.messages[l].timestamp.ms

\* ------------------------------------------- CircuitBreaker claims, continued

\* C29: a call that succeeds while the state is 'closed' sets failures to 0;
\* the state is 'open' only when at least `threshold` of the most recent
\* completed calls of fn, with no success among them, failed; a failure that
\* follows fewer than threshold - 1 failures in a row leaves the breaker as
\* it was.
C29_CountsConsecutiveFailures ==
  [][/\ \A c \in Callers : \A v \in FnValues :
          (FnSucceed(c, v) /\ state = "closed")
            => failures' = 0 /\ state' = "closed"
     /\ state' = "open" => TrailingFailures(recent') >= threshold
     /\ \A c \in Callers : \A e \in FnErrors :
          (FnFail(c, e) /\ TrailingFailures(recent') < threshold)
            => state' = state /\ state' # "open"]_vars

\* with threshold 2, one caller has awaited a call that failed, counted as 1,
\* and then a call that succeeded and set the count back to 0 while the breaker
\* was closed; no other caller has called
C29_Witness ==
  /\ threshold = 2
  /\ Len(recent) = 2 /\ recent[1] = "failure" /\ recent[2] = "success"
  /\ failures = 0
  /\ state = "closed"
  /\ \E c \in Callers :
       /\ callPc[c] = "idle" /\ callResult[c] \in FnValues
       /\ \A d \in Callers \ {c} : callResult[d] = "none"

\* ------------------------------------------------- createChatStorage claims

\* a configuration value is configured when it is set to something
Configured(v) == v # Absent /\ v[1] # ""

\* C30: createChatStorage never throws and always returns an adapter: the
\* remote adapter exactly when the connection URL and the credential are both
\* configured and the remote client is constructed, the local adapter when
\* either value is absent or construction fails; the hook calls it once, on
\* its first render, so that one adapter instance serves every operation of
\* the hook, whatever userId later renders pass.
C30_OneAdapterChosenByConfiguration ==
  /\ renders = 0 => storage = Absent /\ constructed = 0 /\ served = {}
  /\ renders > 0 =>
       /\ storage # Absent
       /\ storage[1].kind = "value"
       /\ storage[1].value.adapter \in {"local", "remote"}
       /\ storage[1].value.adapter = "remote"
            <=> Configured(supabaseUrl) /\ Configured(supabaseKey) /\ clientLoads
       /\ supabaseUrl = Absent \/ supabaseKey = Absent \/ ~clientLoads
            => storage[1].value.adapter = "local"
       /\ constructed = 1
       /\ storage[1].value.instance = 1
       /\ served \subseteq {1}

\* the client fails to load although both values are configured; the hook has
\* rendered again with another userId and its operations have run on the
\* local adapter of the first render
C30_Witness ==
  /\ Configured(supabaseUrl) /\ Configured(supabaseKey) /\ ~clientLoads
  /\ renders >= 2
  /\ hookUserId = Some("B")
  /\ storage = Some(Fulfilled(NewLocalStorageChatAdapter(1)))
  /\ served = {1}

\* both values configured and the client loads: the adapter is the remote
\* one, still bound to the userId of the first render
C30_WitnessRemote ==
  /\ clientLoads
  /\ renders >= 2
  /\ hookUserId = Some("B")
  /\ storage = Some(Fulfilled(NewSupabaseChatAdapter(Some("A"), 1)))
  /\ served = {1}

\* ------------------------------------------------------ both adapters' claims

\* C26: what clearAll removes.  On the remote adapter, with no identity bound
\* the call fails with 'Cannot clear all without userId' and both tables are
\* as before; with an identity bound, a call that succeeds removes every
\* conversation whose user_id is that identity and no other conversation
\* (messages go with their conversations and only with them), and a call the
\* store refuses removes nothing.  On the local adapter, listConversations
\* after clearAll returns the empty sequence.
C26_ClearAllBlastRadius ==
  [][ /\ (\E error \in BOOLEAN : RemoteClearAll(error)) =>
           /\ sbUserId = Absent =>
                /\ sbLast'.outcome = NoUserId
                /\ sbConversations' = sbConversations
                /\ sbMessages' = sbMessages
           /\ sbUserId # Absent /\ sbLast'.outcome = Ok =>
                /\ \A row \in sbConversations :
                     row \in sbConversations' <=> row.user_id # sbUserId
                /\ sbConversations' \subseteq sbConversations
                /\ \A row \in sbMessages :
                     row \in sbMessages'
                       <=> \E c \in sbConversations' : c.id = row.conversation_id
                /\ sbMessages' \subseteq sbMessages
           /\ sbUserId # Absent /\ sbLast'.outcome # Ok =>
                /\ sbLast'.outcome = ClearAllFailed
                /\ sbConversations' = sbConversations
                /\ sbMessages' = sbMessages
      /\ ClearAll => ListConversations' = <<>>
    ]_vars

\* the adapter bound to A has cleared a table that held a conversation of A,
\* with a message, and a conversation of B: B's conversation is what remains
C26_Witness ==
  /\ Adapter.adapter = "remote"
  /\ sbUserId = Some("A")
  /\ sbLast = Call("clearAll", Ok)
  /\ sbCalls = 1
  /\ sbConversations = {row \in EarlierConversations : row.user_id = Some("B")}
  /\ sbConversations # {}
  /\ sbMessages = {}

\* the local adapter has cleared a store that held conversations
C26_WitnessLocal ==
  /\ Adapter.adapter = "local"
  /\ hasWindow
  /\ lsLast = Call("clearAll", Ok)
  /\ calls = 1
  /\ uuids > 0
  /\ stored = Absent

\* ------------------------------ LocalStorageChatAdapter claims, continued

\* C31: on a fresh adapter in a browser with nothing stored, saveMessage for
\* a conversation id that was never created succeeds, and getMessages for
\* that id then returns exactly one message, with the content of the message
\* saved.
C31_SaveMessageCreatesConversation ==
  [][ \A id \in AnyConversationId : \A m \in NewMessages(clock) :
        (/\ hasWindow
         /\ stored = Absent
         /\ calls = 0
         /\ SaveMessage(id, m, FALSE))
          => /\ lsLast'.outcome = Ok
             /\ \E messages \in {GetMessages(id)'} :
                  /\ Len(messages) = 1
                  /\ messages[1].content = m.content ]_vars

\* ------------------------------------------ CircuitBreaker claims, concurrency

\* C33: with several execute calls in flight, the state leaves `open` only by
\* the open -> half-open transition that an execute call takes once the
\* cooldown has elapsed, or by reset(); no step other than reset() moves the
\* state from `open` to `closed` or lowers the failure count while the state
\* is `open`.
C33_OpenLeftOnlyAfterCooldown ==
  [][ state = "open" /\ ~Reset =>
        /\ state' \in {"open", "half-open"}
        /\ state' = "half-open" =>
             /\ CooldownElapsed(now, lastFailureTime, timeout)
             /\ \E c \in Callers : Execute(c)
        /\ failures' >= failures ]_vars

\* C34: half-open admits a single probe: an execute call that arrives while
\* the state is `half-open` and the probe that the cooldown let through is
\* still in flight does not invoke the wrapped operation.
C34_SingleProbe ==
  [][ \A c \in Callers :
        (/\ state = "half-open"
         /\ \E d \in Callers \ {c} : callPc[d] = "running" /\ callKind[d] = "probe"
         /\ Execute(c))
          => callPc'[c] # "running" ]_vars

\* C35: with threshold >= 1, under any interleaving of execute calls and
\* reset(): whenever the state is `closed` the failure count is below the
\* threshold, and whenever it is `open` or `half-open` the failure count is
\* at least the threshold and lastFailureTime is the time of the most recent
\* recorded failure, that is every recorded failure sets it to the current
\* time and no other step changes it while the state stays `open` or
\* `half-open`.
C35_StateAgreesWithCounter ==
  /\ [](/\ state = "closed" => failures < threshold
        /\ state \in {"open", "half-open"} => failures >= threshold)
  /\ [][ /\ (\E c \in Callers : \E e \in FnErrors : FnFail(c, e))
              => lastFailureTime' = now
         /\ (/\ state' \in {"open", "half-open"}
             /\ ~\E c \in Callers : \E e \in FnErrors : FnFail(c, e))
              => lastFailureTime' = lastFailureTime ]_vars

\* a call started while the breaker was closed has failed after the breaker
\* opened: the count is above the threshold, no probe was ever made, and the
\* failure was recorded after time had passed
C35_Witness ==
  /\ state = "open"
  /\ failures > threshold
  /\ lastFailureTime > 0
  /\ \A c \in Callers : callKind[c] = "call"

\* ------------------------------------------------ withRetry claims, continued

\* C36: for every maxRetries, 0 included, withRetry has invoked the operation
\* at least once when it fails, and the exhaustion error wraps an error that
\* an attempt rejected with (or Error('Unknown error') made from it), never
\* undefined.
C36_AttemptsAtLeastOnce ==
  (rtPc = "done" /\ rtResult.kind \in {"LLMError", "thrown"})
    => /\ invocations >= 1
       /\ fnLast.kind = "thrown"
       /\ rtResult.kind = "LLMError" =>
            /\ rtResult.details.originalError # Undefined
            /\ rtResult.details.originalError = AsError(fnLast.error)

\* -------------------------------------------- withRetry around withTimeout

\* the operations started and not yet settled
OperationsInFlight == {i \in 1..Len(coOperations) : coOperations[i] = Pending}

\* C37: when withRetry (default shouldRetry) wraps an operation raced by
\* withTimeout (default message), at most one instance of the operation is
\* in flight at any time: attempt n+1 is never started while the operation
\* of attempt n is still running.
C37_OneOperationInFlight == Cardinality(OperationsInFlight) <= 1

\* ----------------------------------------------------------- task board claims

\* nothing is queued or scheduled: the page shows the store's current thread
Quiescent ==
  /\ lastRender # Absent
  /\ isLoaded
  /\ pendingUpdates = <<>>
  /\ ~effectPending
  /\ lastRender[1].currentThreadId = currentThreadId

\* the tasks kept for a thread in a Record<string, ThreadState>
StoredTasks(states, thread) ==
  IF states[thread] = Absent THEN <<>> ELSE states[thread][1].tasks

\* every task kept for a thread was created while that thread was current
OwnTasksOnly(states) ==
  \A thread \in Threads :
    \A i \in 1..Len(StoredTasks(states, thread)) :
      createdIn[StoredTasks(states, thread)[i].id[2]] = thread

\* C32: the task board is scoped to the thread.  For any interleaving of tool
\* executions and thread switches, no task created while one thread was
\* current is ever kept in another thread's stored state (in the page's
\* threadStates or in localStorage), and once the page has settled the tasks
\* shown are exactly the result of the tool executions made while the current
\* thread was current, and every other thread's stored tasks are exactly what
\* they were when that thread was left.
C32_ThreadScopedTasks ==
  /\ OwnTasksOnly(threadStates)
  /\ savedThreadStates # Absent => OwnTasksOnly(ParseThreadStates(savedThreadStates[1]))
  /\ Quiescent =>
       /\ tasks = expected[currentThreadId]
       /\ \A thread \in Threads \ {currentThreadId} :
            StoredTasks(threadStates, thread) = expected[thread]


\* ---- useChatHistory

\* every call made so far is one of ops
OnlyCalls(ops) == \A n \in 1..Len(hkCalls) : hkCalls[n].op \in ops

LocalMessages(conversation) == {conversation.messages[i] : i \in 1..Len(conversation.messages)}

\* C38: after any interleaving of addMessage and switchConversation calls,
\* currentConversation.messages contains only messages that storage holds
\* under currentConversation.id.
C38_LocalCopyHoldsOnlyStoredMessages ==
  (/\ OnlyCalls({"addMessage", "switchConversation"})
   /\ hkCurrentConversation # Absent
   /\ HasStored(hkStore, hkCurrentConversation[1].id))
  => LocalMessages(hkCurrentConversation[1])
       \subseteq LocalMessages(StoredConversation(hkStore, hkCurrentConversation[1].id))

\* C39: starting with no current conversation, addMessage calls that have all
\* returned, overlapping or not, created exactly one conversation in storage
\* and saved every one of their messages into it.
C39_OneConversationForAllMessages ==
  (/\ hkCalls # <<>>
   /\ OnlyCalls({"addMessage"})
   /\ hkCalls[1].before.currentConversation = Absent
   /\ \A n \in 1..Len(hkCalls) : hkCalls[n].pc = "done" /\ hkCalls[n].outcome.kind = "value")
  => /\ Len(hkStore) = 1
     /\ \A n \in 1..Len(hkCalls) : hkCalls[n].outcome.value \in LocalMessages(hkStore[1])

\* C40: when the latest call, made with no other call in flight, is one of
\* createNewConversation, addMessage, deleteConversation,
\* updateConversationTitle, clearAllHistory and a storage call of it failed,
\* conversations and currentConversation are what they were before the call,
\* error is the failure's message and the call rejected with the failure.
C40_FailureLeavesLocalStateAlone ==
  (/\ hkCalls # <<>>
   /\ hkCalls[Len(hkCalls)].op \in {"createNewConversation", "addMessage",
                                     "deleteConversation", "updateConversationTitle",
                                     "clearAllHistory"}
   /\ hkCalls[Len(hkCalls)].pc = "done"
   /\ ~hkCalls[Len(hkCalls)].overlapped
   /\ hkCalls[Len(hkCalls)].settled.kind = "thrown")
  => /\ hkConversations = hkCalls[Len(hkCalls)].before.conversations
     /\ hkCurrentConversation = hkCalls[Len(hkCalls)].before.currentConversation
     /\ hkError = Some(hkCalls[Len(hkCalls)].settled.error)
     /\ hkCalls[Len(hkCalls)].outcome = hkCalls[Len(hkCalls)].settled

====
